---- MODULE Spec2Model ----
(***************************************************************************)
(* A model of the maslite kernel of src/maslite/__init__.py: the Scheduler *)
(* main loop, the mailing lists, the Clock and its alarms, and the agents' *)
(* scheduler-facing API.  Identifiers and topics are strings (an agent's   *)
(* integer uuid 1 is the string "1"), times are integers.                  *)
(***************************************************************************)
EXTENDS Integers, Sequences, FiniteSets, TLC

\* ------------------------------------------------------------------ bounds
MaxUuid == 3        \* messages the agents and the callers may create
MaxTime == 2        \* latest alarm time an agent may ask for
MaxIter == 1        \* largest iterations argument given to run
MaxRunUuid == 4     \* uuids the run calls may draw on top of MaxUuid
MaxAlarms == 2      \* alarms sent to a clock that is used on its own
MaxJunk == 1        \* entries in the mail queue that are no messages
MaxTolerated == 2   \* largest tolerated_delivery_attempts of a message
MaxPosted == 2      \* messages put in the MailMan's inbox
MaxUpdates == 4     \* updates of the MailMan
MaxChain == 2      \* ChainMsg objects the agents of the partitions send

\* ------------------------------------------------------------- identifiers
None == "None"
SchedulerId == "-1"
ClockId == "-2"
UserAgents == {"1", "2"}
AgentClass == "TestAgent"
ClockClass == "Clock"
SchedulerClass == "Scheduler"
Ids == UserAgents \cup {SchedulerId, ClockId}

PauseTopic == "PauseMessage"
AlarmTopic == "AlarmMessage"
SubscribeTopic == "SubscribeMessage"
UnSubscribeTopic == "UnSubscribeMessage"
AddTopic == "AddNewAgent"
RemoveTopic == "RemoveAgent"
SetTimeTopic == "SetTimeAndClockSpeedMessage"
DefaultTopic == "AgentMessage"
UserTopic == "Hello"

\* the keys of Scheduler.operations
SchedulerOperations ==
    {PauseTopic, "StopMessage", AddTopic, RemoveTopic, SubscribeTopic,
     UnSubscribeTopic, "GetSubscriptionTopicsMessage", "GetSubscribersMessage"}

\* ---------------------------------------------------------------- messages
NoInner == [oid |-> 0, uuid |-> 0, sender |-> None, receiver |-> None, topic |-> None]

\* None, where a message is expected
NoMessage == [oid |-> 0, uuid |-> 0]

\* AgentMessage.__init__: the uuid is drawn from uuid_counter; oid is the
\* identity of the object (a deep copy keeps uuid and gets a new oid).
AgentMessage(n, sender, receiver, topic) ==
    [oid |-> n, uuid |-> n, sender |-> sender, receiver |-> receiver,
     topic |-> topic, sub |-> None, wake |-> 0, agent |-> None, inner |-> NoInner]

SubscribeMessage(n, sender, subscription_topic) ==
    [AgentMessage(n, sender, None, SubscribeTopic) EXCEPT !.sub = subscription_topic]

UnSubscribeMessage(n, sender, subscription_topic) ==
    [AgentMessage(n, sender, None, UnSubscribeTopic) EXCEPT !.sub = subscription_topic]

PauseMessage(n, sender, receiver) == AgentMessage(n, sender, receiver, PauseTopic)

AddNewAgent(n, sender, agent) ==
    [AgentMessage(n, sender, SchedulerClass, AddTopic) EXCEPT !.agent = agent]

RemoveAgent(n, sender, agent) ==
    [AgentMessage(n, sender, SchedulerClass, RemoveTopic) EXCEPT !.agent = agent]

Inner(m) == [oid |-> m.oid, uuid |-> m.uuid, sender |-> m.sender,
             receiver |-> m.receiver, topic |-> m.topic]

\* AlarmMessage.__init__: an alarm message without receiver is addressed to
\* the sender of the alarm.
AlarmMessage(n, sender, alarm_time, alarm_message) ==
    [AgentMessage(n, sender, ClockClass, AlarmTopic) EXCEPT
        !.wake = alarm_time,
        !.inner = [Inner(alarm_message) EXCEPT
                     !.receiver = IF alarm_message.receiver = None
                                  THEN sender ELSE alarm_message.receiver]]

\* the wake_up_message an AlarmMessage carries
WakeUpMessage(alarm) ==
    [AgentMessage(alarm.inner.uuid, alarm.inner.sender, alarm.inner.receiver,
                  alarm.inner.topic) EXCEPT !.oid = alarm.inner.oid]

\* the identity of the object that deepcopy makes of object oid for the i-th
\* agent: a new object, unlike every other one (an oid is a numeral to the
\* base 100 whose digits are a uuid and the agents copied for)
CopyOid(oid, i) == oid * 100 + i

\* AgentMessage.copy: deepcopy, an independent object (a new oid, also for the
\* wake_up_message held by an AlarmMessage) with the same fields
AgentMessageCopy(msg, i) ==
    [msg EXCEPT !.oid = CopyOid(@, i),
                !.inner = IF msg.topic = AlarmTopic
                          THEN [msg.inner EXCEPT !.oid = CopyOid(@, i)] ELSE msg.inner]

\* ------------------------------------------------------------------- clock
\* the order of the alarms, had equal wake-up times put the newer alarm first
AlarmLessNewestFirst(a, b) == a.wake < b.wake \/ (a.wake = b.wake /\ a.uuid > b.uuid)

\* the order of Clock.alarms: tuples (wake_up_time, uuid, msg), sorted
AlarmLess(a, b) == a.wake < b.wake \/ (a.wake = b.wake /\ a.uuid < b.uuid)

RECURSIVE SortedInsert(_, _)
SortedInsert(alarms, msg) ==
    IF alarms = <<>> THEN <<msg>>
    ELSE IF AlarmLess(msg, Head(alarms)) THEN <<msg>> \o alarms
    ELSE <<Head(alarms)>> \o SortedInsert(Tail(alarms), msg)

\* Clock.set_alarm: append (wake_up_time, uuid, msg) and sort
ClockSetAlarm(alarms, msg) == SortedInsert(alarms, msg)

\* 1 / Clock.clock_frequency on a real-time clock, the unit of time then
\* being a nanosecond: the measurements of tick are all 0 and cfm is 10 ** -9
Lookahead == 1

\* right_now of Clock.check_alarm_clock
RightNow(speed, time) == IF speed = None THEN time ELSE time + Lookahead

\* check_alarm_clock, had it compared with <
ReleaseDueStrict(wake_up_time, right_now) == wake_up_time < right_now

ReleaseDue(wake_up_time, right_now) == wake_up_time <= right_now

\* Clock.check_alarm_clock: pop from the front while the first alarm is due;
\* the result is <<wake-up messages sent, alarms left>>
RECURSIVE CheckAlarmClock(_, _, _)
CheckAlarmClock(alarms, right_now, sent) ==
    IF alarms = <<>> THEN <<sent, alarms>>
    ELSE IF ReleaseDue(Head(alarms).wake, right_now)
         THEN CheckAlarmClock(Tail(alarms), right_now,
                              Append(sent, WakeUpMessage(Head(alarms))))
         ELSE <<sent, alarms>>

\* the while loop of Clock.update over the inbox: AlarmMessage -> set_alarm,
\* every other topic has no operation (SetTimeAndClockSpeedMessage is not sent)
RECURSIVE ClockReadInbox(_, _)
ClockReadInbox(box, alarms) ==
    IF box = <<>> THEN alarms
    ELSE ClockReadInbox(Tail(box),
            IF Head(box).topic = AlarmTopic
            THEN ClockSetAlarm(alarms, Head(box)) ELSE alarms)

\* --------------------------------------------------------------- variables
VARIABLES
    agents,             \* Scheduler.agents: the registered uuids
    is_setup,           \* Agent._is_setup of every agent object (and the scheduler's)
    keep_awake,         \* Agent.keep_awake
    inbox,              \* Agent.inbox
    outbox,             \* Agent.outbox
    sched_time,         \* Scheduler._time, stamped by scheduler_update
    mail_queue,         \* Scheduler.mail_queue
    mailing_lists,      \* Scheduler.mailing_lists: topic -> set of uuids
    needs_update,       \* Scheduler.needs_update
    has_keep_awake,     \* Scheduler.has_keep_awake
    pause,              \* Scheduler.pause
    pause_if_idle,      \* Scheduler.pause_if_idle
    iterations_to_halt, \* Scheduler.iterations_to_halt (-1 is None)
    message_count,      \* Scheduler.message_count, deque(maxlen=3)
    alarms,             \* Clock.alarms
    clock_time,         \* Clock._time
    clock_paused,       \* Clock._paused
    clock_speed,        \* Clock._clock_speed: None (a simulation clock) or "1"
    uuid_counter,       \* the next value of uuid_counter
    pc,                 \* where the caller or the main loop stands
    todo,               \* uuids the for loop of update_all_agents has yet to visit
    err,                \* the exception the last call raised, or "none"
    log,                \* the deliveries made by the last process_mail_queue
    run_info,           \* what the current (or last) run call was given and has done
    wake_log,           \* for every alarm set, its wake-up time and how often its
                        \* wake-up message was appended to its receiver's inbox
    hook,               \* for every agent object, the hook the scheduler invoked
                        \* on it last: "setup", "update", "teardown", or "none"
    returned,           \* what the caller's last single call of agent.receive()
                        \* (ReceiveOne) returned
    subscription_calls, \* the last two subscription messages the caller gave the
                        \* scheduler (SubscriptionCall), each with the mailing lists
                        \* it found
    alarm_book,         \* the alarm structures of a clock that can clear alarms:
                        \* alarm_time, clients_to_wake_up, the registry of every
                        \* receiver and last_required_alarm
    cleared,            \* the last clear_alarms call of an agent and the alarms
                        \* that were pending when it was made
    clock1,             \* a TestSimulationClock1 (heap) with the mail queue of its
                        \* scheduler
    clock2,             \* a TestSimulationClock2 (insort on a deque), given the
                        \* same calls as clock1
    mailman,            \* the MailMan of outscale.core: its inbox, its agent
                        \* register and mailing lists, and the agents' inboxes
    mp                  \* the partitioned setup of the tests: every MPScheduler's
                        \* mail_queue and where its process stands, the queues
                        \* to_mp and to_proc of every Link, the agents' inboxes
                        \* and where MPmain stands in process_mail_queue

vars == <<agents, is_setup, keep_awake, inbox, outbox, sched_time, mail_queue,
          mailing_lists, needs_update, has_keep_awake, pause, pause_if_idle,
          iterations_to_halt, message_count, alarms, clock_time, clock_paused,
          uuid_counter, pc, todo, err, log, run_info, clock_speed, wake_log, hook,
          returned, subscription_calls, alarm_book, cleared, clock1, clock2,
          mailman, mp>>

NoIterations == -1

\* deque(maxlen=3).append
AppendMax3(q, x) == IF Len(q) < 3 THEN Append(q, x) ELSE Append(Tail(q), x)

RECURSIVE SeqSum(_)
SeqSum(q) == IF q = <<>> THEN 0 ELSE Head(q) + SeqSum(Tail(q))

\* ----------------------------------------------------------- mailing lists
\* process_subscribe_message, had it taken a subscription that is held
\* already for its withdrawal
SubscribeOrWithdraw(ml, agent_uuid, subscription_topic) ==
    IF subscription_topic \in DOMAIN ml
    THEN IF agent_uuid \in ml[subscription_topic]
         THEN [ml EXCEPT ![subscription_topic] = @ \ {agent_uuid}]
         ELSE [ml EXCEPT ![subscription_topic] = @ \cup {agent_uuid}]
    ELSE [k \in DOMAIN ml \cup {subscription_topic} |->
            IF k = subscription_topic THEN {agent_uuid} ELSE ml[k]]

\* Scheduler.process_subscribe_message
ProcessSubscribe(ml, agent_uuid, subscription_topic) ==
    IF subscription_topic \in DOMAIN ml
    THEN [ml EXCEPT ![subscription_topic] = @ \cup {agent_uuid}]
    ELSE [k \in DOMAIN ml \cup {subscription_topic} |->
            IF k = subscription_topic THEN {agent_uuid} ELSE ml[k]]

\* unsubscribe_agent_everywhere, had it emptied the agent's own list only
UnsubscribeOwnList(ml, agent_uuid) ==
    [k \in DOMAIN ml |-> IF k = agent_uuid THEN {} ELSE ml[k]]

\* Scheduler.unsubscribe_agent_everywhere: the lists stay, also when empty
UnsubscribeEverywhere(ml, agent_uuid) ==
    [k \in DOMAIN ml |-> ml[k] \ {agent_uuid}]

\* Scheduler.process_unsubscribe_message (the sender is never the scheduler)
ProcessUnsubscribe(ml, agent_uuid, subscription_topic) ==
    LET ml1 == IF subscription_topic = None THEN UnsubscribeEverywhere(ml, agent_uuid)
               ELSE ml
    IN IF subscription_topic \in DOMAIN ml1
       THEN IF ml1[subscription_topic] \ {agent_uuid} = {}
            THEN [k \in DOMAIN ml1 \ {subscription_topic} |-> ml1[k]]
            ELSE [ml1 EXCEPT ![subscription_topic] = @ \ {agent_uuid}]
       ELSE ml1

ClassOf(a) == IF a = ClockId THEN ClockClass
              ELSE IF a = SchedulerId THEN SchedulerClass ELSE AgentClass

\* ------------------------------------------------------ scheduler registry
\* The part of the scheduler that add, remove and the message handlers of
\* scheduler_update read and write, as one record S:
\*   agents, is_setup, ml, nu (needs_update), hka (has_keep_awake), outbox,
\*   mq (mail_queue), pause, n (uuid_counter), err, hook
Registry ==
    [agents |-> agents, is_setup |-> is_setup, ml |-> mailing_lists,
     nu |-> needs_update, hka |-> has_keep_awake, outbox |-> outbox,
     mq |-> mail_queue, pause |-> pause, n |-> uuid_counter, err |-> "none",
     hook |-> hook]

\* Agent.setup of the agent classes: Clock.setup subscribes (a SubscribeMessage
\* in its outbox); the setup of the test agents does nothing.
AgentSetup(S, a) ==
    IF a = ClockId
    THEN [S EXCEPT !.outbox[a] = Append(@, SubscribeMessage(S.n, a, SetTimeTopic)),
                   !.n = @ + 1,
                   !.hook[a] = "setup"]
    ELSE [S EXCEPT !.hook[a] = "setup"]

\* Agent.teardown of the test agents
AgentTeardown(S, a) == [S EXCEPT !.hook[a] = "teardown"]

\* Scheduler.add, had it not looked the uuid up in self.agents first
AddUnchecked(S, a) ==
    LET S1 == [S EXCEPT !.agents = @ \cup {a}]
        S2 == IF ~S1.is_setup[a]
              THEN [AgentSetup(
                      [S1 EXCEPT !.ml = ProcessSubscribe(
                                          ProcessSubscribe(@, a, a), a, ClassOf(a))],
                      a)
                    EXCEPT !.is_setup[a] = TRUE]
              ELSE S1
        S3 == IF keep_awake[a] THEN [S2 EXCEPT !.hka = @ \cup {a}] ELSE S2
    IN [S3 EXCEPT !.nu = @ \cup {a}]

\* Scheduler.add
Add(S, a) ==
    IF a \in S.agents THEN [S EXCEPT !.err = "SchedulerException"]
    ELSE LET S1 == [S EXCEPT !.agents = @ \cup {a}]
             S2 == IF ~S1.is_setup[a]
                   THEN [AgentSetup(
                           [S1 EXCEPT !.ml = ProcessSubscribe(
                                               ProcessSubscribe(@, a, a), a, ClassOf(a))],
                           a)
                         EXCEPT !.is_setup[a] = TRUE]
                   ELSE S1
             S3 == IF keep_awake[a] THEN [S2 EXCEPT !.hka = @ \cup {a}] ELSE S2
         IN [S3 EXCEPT !.nu = @ \cup {a}]

\* the flag that remove resets before teardown: the scheduler's own _is_setup
RemoveResets(a) == SchedulerId

\* Scheduler.remove, had it not looked the agent up in self.agents
RemoveUnlooked(S, a, by_uuid) ==
    IF a = ClockId THEN [S EXCEPT !.err = "ValueError"]
    ELSE LET S1 == IF S.is_setup[a]
                   THEN [AgentTeardown(S, a) EXCEPT
                                  !.is_setup[RemoveResets(a)] = FALSE,
                                  !.mq = @ \o S.outbox[a],
                                  !.outbox[a] = <<>>,
                                  !.ml = UnsubscribeEverywhere(@, a)]
                   ELSE S
         IN [S1 EXCEPT !.nu = @ \ {a}, !.hka = @ \ {a}, !.agents = @ \ {a}]

\* Scheduler.remove, called with an agent object (by_uuid = FALSE) or a uuid
Remove(S, a, by_uuid) ==
    IF by_uuid /\ a \notin S.agents THEN [S EXCEPT !.err = "ValueError"]
    ELSE IF a = ClockId THEN [S EXCEPT !.err = "ValueError"]
    ELSE IF a \notin S.agents THEN S
    ELSE LET S1 == IF S.is_setup[a]
                   THEN [AgentTeardown(S, a) EXCEPT
                                  !.is_setup[RemoveResets(a)] = FALSE,
                                  !.mq = @ \o S.outbox[a],
                                  !.outbox[a] = <<>>,
                                  !.ml = UnsubscribeEverywhere(@, a)]
                   ELSE S
         IN [S1 EXCEPT !.nu = @ \ {a}, !.hka = @ \ {a}, !.agents = @ \ {a}]

\* ------------------------------------------------------------ mail delivery
\* the order in which a set of recipients is visited
IdOrder == <<SchedulerId, ClockId, "1", "2">>

\* send_to_recipients, had it appended a copy for a single recipient too
DeliveredAlwaysCopy(msg, recipients, i) == AgentMessageCopy(msg, i)

\* send_to_recipients, had it appended the message itself to every inbox
DeliveredShared(msg, recipients, i) == msg

\* the inbox append of send_to_recipients for the i-th agent: the message
\* itself for a single recipient, msg.copy() otherwise
Delivered(msg, recipients, i) ==
    IF Cardinality(recipients) = 1 THEN msg ELSE AgentMessageCopy(msg, i)

\* Scheduler.send_to_recipients.  D = [inbox, nu, got, err]; got lists
\* <<uuid, oid>> for every inbox append.  self.agents[uuid] raises KeyError
\* for a recipient that is not registered.
RECURSIVE SendToRecipients(_, _, _, _, _)
SendToRecipients(D, msg, recipients, registered, i) ==
    IF i > Len(IdOrder) \/ D.err # "none" THEN D
    ELSE LET uuid == IdOrder[i] IN
         IF uuid \notin recipients
         THEN SendToRecipients(D, msg, recipients, registered, i + 1)
         ELSE IF uuid # SchedulerId /\ uuid \notin registered
         THEN [D EXCEPT !.err = "KeyError"]
         ELSE LET d == Delivered(msg, recipients, i) IN
              SendToRecipients(
                [D EXCEPT !.inbox[uuid] = Append(@, d),
                          !.nu = IF uuid = SchedulerId THEN @ ELSE @ \cup {uuid},
                          !.got = Append(@, <<uuid, d.oid>>)],
                msg, recipients, registered, i + 1)

\* step 1 of process_mail_queue: the subscribers of the receiver and of the topic
Recipients(ml, msg) ==
    (IF msg.receiver \in DOMAIN ml THEN ml[msg.receiver] ELSE {})
    \cup (IF msg.topic \in DOMAIN ml THEN ml[msg.topic] ELSE {})

\* an entry of the mail queue that is not an AgentMessage
Junk == [junk |-> "a non-AgentMessage"]

\* isinstance(msg, AgentMessage)
IsAgentMessage(msg) == "uuid" \in DOMAIN msg

\* process_mail_queue, had it raised on an entry that is not an AgentMessage
RaiseOnJunk(P) == [P EXCEPT !.mq = Tail(@), !.err = "TypeError"]

\* what process_mail_queue does with an entry that is not an AgentMessage:
\* the entry is counted and dumped (with a warning in the log of the program)
DumpJunk(P) ==
    [P EXCEPT !.mq = Tail(@), !.count = @ + 1,
              !.log = Append(@, [m |-> Head(P.mq), rcpt |-> {}, got |-> <<>>])]

\* Scheduler.process_mail_queue.  P = [mq, inbox, nu, log, err, count]
RECURSIVE ProcessMailQueue(_, _, _)
ProcessMailQueue(P, ml, registered) ==
    IF P.mq = <<>> \/ P.err # "none" THEN P
    ELSE IF ~IsAgentMessage(Head(P.mq)) THEN ProcessMailQueue(DumpJunk(P), ml, registered)
    ELSE LET msg == Head(P.mq)
             recipients == Recipients(ml, msg)
             D == SendToRecipients(
                    [inbox |-> P.inbox, nu |-> P.nu, got |-> <<>>, err |-> "none"],
                    msg, recipients, registered, 1)
         IN ProcessMailQueue(
              [mq |-> Tail(P.mq), inbox |-> D.inbox, nu |-> D.nu,
               log |-> Append(P.log, [m |-> msg, rcpt |-> recipients, got |-> D.got]),
               err |-> D.err, count |-> P.count + 1],
              ml, registered)

\* ------------------------------------------------------- scheduler_update
\* the handler Scheduler.operations holds for the topic of msg, applied to the
\* registry S
Operation(S, msg) ==
    IF msg.topic = PauseTopic THEN [S EXCEPT !.pause = TRUE]
    ELSE IF msg.topic = AddTopic THEN Add(S, msg.agent)
    ELSE IF msg.topic = RemoveTopic THEN Remove(S, msg.agent, FALSE)
    ELSE IF msg.topic = SubscribeTopic
         THEN [S EXCEPT !.ml = ProcessSubscribe(@, msg.sender, msg.sub)]
    ELSE IF msg.topic = UnSubscribeTopic
         THEN [S EXCEPT !.ml = ProcessUnsubscribe(@, msg.sender, msg.sub)]
    ELSE S

\* the while loop of Scheduler.scheduler_update over the scheduler's inbox;
\* the result is <<registry, messages left in the inbox>>
RECURSIVE SchedulerReadInbox(_, _)
SchedulerReadInbox(S, box) ==
    IF box = <<>> \/ S.err # "none" THEN <<S, box>>
    ELSE SchedulerReadInbox(Operation(S, Head(box)), Tail(box))

\* ------------------------------------------------------------ the agent API
\* One call an agent makes from its update (or the caller makes on the agent
\* between two runs): op is "none", "send", "subscribe", "unsubscribe",
\* "alarm", "pause", "awake", "sleep", "add" or "remove".
Call(op, k, topic, t, rel) == [op |-> op, k |-> k, topic |-> topic, t |-> t, rel |-> rel]

\* Agent.set_timed_alarm: the wake-up time of the alarm
AlarmTime(now, c) == IF c.rel THEN now + c.t ELSE c.t

\* the messages the call appends to the agent's outbox (Agent.send,
\* Agent.subscribe, Agent.unsubscribe, Agent.set_timed_alarm), n the next uuid
Outgoing(a, c, n, now) ==
    IF c.op = "send" THEN <<AgentMessage(n, a, c.k, c.topic)>>
    ELSE IF c.op = "subscribe" THEN <<SubscribeMessage(n, a, c.k)>>
    ELSE IF c.op = "unsubscribe" THEN <<UnSubscribeMessage(n, a, c.k)>>
    ELSE IF c.op = "pause" THEN <<PauseMessage(n, a, SchedulerClass)>>
    ELSE IF c.op = "add" THEN <<AddNewAgent(n, a, c.k)>>
    ELSE IF c.op = "remove" THEN <<RemoveAgent(n, a, c.k)>>
    ELSE IF c.op = "alarm"
         THEN IF c.topic = None
              THEN <<AlarmMessage(n, a, AlarmTime(now, c),
                                  AgentMessage(n + 1, a, a, DefaultTopic))>>
              ELSE <<AlarmMessage(n + 1, a, AlarmTime(now, c),
                                  AgentMessage(n, a, c.k, c.topic))>>
    ELSE <<>>

\* the uuids the call draws
Drawn(c) == IF c.op = "alarm" THEN 2
            ELSE IF c.op \in {"none", "awake", "sleep"} THEN 0 ELSE 1

KeepAwakeAfter(a, c) == IF c.op = "awake" THEN TRUE
                        ELSE IF c.op = "sleep" THEN FALSE ELSE keep_awake[a]

\* what keeps the model finite: the uuids drawn and the alarm times asked for
CallAllowed(a, c, now) ==
    /\ Drawn(c) > 0 => uuid_counter + Drawn(c) <= MaxUuid + 1
    /\ c.op = "alarm" => AlarmTime(now, c) \in 0..MaxTime

\* ------------------------------------------------------------ Clock.update
\* Clock.update on the clock's inbox box: resume, read the inbox, check the
\* alarm clock.  The result is <<alarms left, wake-up messages sent>>.
\* (tick changes no state that is read: the dt it measures is always 0.)
ClockUpdate(box) ==
    LET r == CheckAlarmClock(ClockReadInbox(box, alarms),
                             RightNow(clock_speed, clock_time), <<>>)
    IN <<r[2], r[1]>>

\* Clock.is_idle
ClockIsIdle(al, box) == al = <<>> /\ box = <<>>

\* Clock.is_waiting_for_the_alarm_clock
ClockIsWaiting(al, box) == al # <<>> /\ box = <<>>

\* Clock.advance_time_to_next_timed_event, called with alarms pending
AdvanceTime(al, now) == Head(al).wake

\* run_info, the record of the current (or last) run call: deadline is the
\* clock time at the call plus the seconds given (-1: none given), budget[a]
\* is the iterations given less the updates of agent a so far (-1: more
\* updates than iterations; NoBudget: no iterations given), first tells that
\* the call ran Scheduler.setup, alarm is the uuid of the PauseMessage of the
\* alarm the call set (0: none), exit is what set Scheduler.pause: "idle"
\* (check_pause_if_idle_flag), "pause" (a PauseMessage), "halt"
\* (update_iterations_to_halt), "raised" when the call raised out of
\* Scheduler.setup, or "" while nothing has; asked follows a
\* PauseMessage a user agent sent in an update of the main loop: 0 while none
\* was sent, 1 in the iteration it was sent in, 2 after that iteration;
\* iterations is the iterations argument and posted the uuids of the messages
\* that were in the outboxes of the registered agents at the call; seconds
\* is the seconds argument and loops tells how many iterations of the main
\* loop the run has begun: none, one, or (2) more than one
NoBudget == MaxIter + 1
NoRun == [deadline |-> -1, budget |-> [a \in UserAgents |-> NoBudget], first |-> FALSE,
          alarm |-> 0, exit |-> "", asked |-> 0, iterations |-> -1, posted |-> {},
          seconds |-> -1, loops |-> 0]

\* wake_log when no alarm has been set
NoAlarms == [u \in {} |-> [wake |-> 0, n |-> 0]]

\* wake_log after the alarm messages among msgs have been sent
RECURSIVE AlarmsSet(_, _)
AlarmsSet(wl, msgs) ==
    IF msgs = <<>> THEN wl
    ELSE AlarmsSet(
           IF Head(msgs).topic = AlarmTopic
           THEN [u \in DOMAIN wl \cup {Head(msgs).inner.uuid} |->
                   IF u = Head(msgs).inner.uuid
                   THEN [wake |-> Head(msgs).wake, n |-> 0] ELSE wl[u]]
           ELSE wl,
           Tail(msgs))

\* the inbox appends of log entry e to agent a
Appends(e, a) == Cardinality({i \in DOMAIN e.got : e.got[i][1] = a})

\* wake_log after the deliveries plog of process_mail_queue
RECURSIVE Woken(_, _)
Woken(wl, plog) ==
    IF plog = <<>> THEN wl
    ELSE LET e == Head(plog) IN
         Woken(IF IsAgentMessage(e.m) /\ e.m.topic # AlarmTopic /\ e.m.uuid \in DOMAIN wl
               THEN [wl EXCEPT ![e.m.uuid].n = @ + Appends(e, e.m.receiver)]
               ELSE wl,
               Tail(plog))

\* ------------------------------------------ the clock that clears alarms
\* The clock of the specification: an ordered sequence of pending wake-up
\* times without duplicates (alarm_time), for every such time the receivers
\* to wake up (clients_to_wake_up), for every receiver a registry from
\* wake-up time to the list of its alarm messages, and the highest wake-up
\* time of an alarm that is not to be dropped on idle.
NoAlarmBook ==
    [alarm_time |-> <<>>,
     clients_to_wake_up |-> [t \in {} |-> {}],
     registry |-> [r \in UserAgents |-> [t \in {} |-> <<>>]],
     last_required_alarm |-> 0]

NoClear == [receiver |-> None, topic |-> None, pending |-> {}]

\* sorted insert without duplicates into the wake-up sequence
RECURSIVE InsertTime(_, _)
InsertTime(q, t) ==
    IF q = <<>> THEN <<t>>
    ELSE IF t = Head(q) THEN q
    ELSE IF t < Head(q) THEN <<t>> \o q
    ELSE <<Head(q)>> \o InsertTime(Tail(q), t)

\* the wake-up sequence without the times that are not in the set keep
RECURSIVE KeepTimes(_, _)
KeepTimes(q, keep) ==
    IF q = <<>> THEN <<>>
    ELSE (IF Head(q) \in keep THEN <<Head(q)>> ELSE <<>>) \o KeepTimes(Tail(q), keep)

\* the messages of a list that clear_alarms with this topic leaves
RECURSIVE KeepTopics(_, _)
KeepTopics(q, topic) ==
    IF q = <<>> THEN <<>>
    ELSE (IF topic # None /\ Head(q).topic # topic THEN <<Head(q)>> ELSE <<>>)
         \o KeepTopics(Tail(q), topic)

\* Clock.set_alarm(delay, message, ignore_if_idle), wakeup = now + delay
RegistrySetAlarm(B, wakeup, msg, ignore_if_idle) ==
    LET r == msg.receiver
        reg == B.registry[r]
    IN [alarm_time |-> InsertTime(B.alarm_time, wakeup),
        clients_to_wake_up |->
            [t \in DOMAIN B.clients_to_wake_up \cup {wakeup} |->
                IF t = wakeup
                THEN (IF t \in DOMAIN B.clients_to_wake_up
                      THEN B.clients_to_wake_up[t] ELSE {}) \cup {r}
                ELSE B.clients_to_wake_up[t]],
        registry |->
            [B.registry EXCEPT ![r] =
                [t \in DOMAIN reg \cup {wakeup} |->
                    IF t = wakeup
                    THEN Append(IF t \in DOMAIN reg THEN reg[t] ELSE <<>>, msg)
                    ELSE reg[t]]],
        last_required_alarm |->
            IF ~ignore_if_idle /\ wakeup > B.last_required_alarm THEN wakeup
            ELSE B.last_required_alarm]

\* clear_alarms, had it pruned every wake-up time at which the registry of
\* the receiver became empty
PruneEmptied(B, receiver, emptied) ==
    LET times == DOMAIN B.clients_to_wake_up \ emptied
    IN [B EXCEPT !.clients_to_wake_up = [t \in times |-> B.clients_to_wake_up[t]],
                 !.alarm_time = KeepTimes(B.alarm_time, times)]

\* the pruning of clear_alarms: the receiver is taken out of the clients of
\* the times at which its registry became empty, and a time that is left
\* without clients is taken out of the wake-up sequence
Prune(B, receiver, emptied) ==
    LET clients == [t \in DOMAIN B.clients_to_wake_up |->
                       IF t \in emptied THEN B.clients_to_wake_up[t] \ {receiver}
                       ELSE B.clients_to_wake_up[t]]
        times == {t \in DOMAIN clients : clients[t] # {}}
    IN [B EXCEPT !.clients_to_wake_up = [t \in times |-> clients[t]],
                 !.alarm_time = KeepTimes(B.alarm_time, times)]

\* Clock.clear_alarms(receiver, topic): with a receiver its registry is
\* purged, of the alarms with the topic if one is given, and the wake-up
\* sequence pruned; without a receiver everything is cleared
ClockClearAlarms(B, receiver, topic) ==
    IF receiver = None
    THEN [NoAlarmBook EXCEPT !.last_required_alarm = B.last_required_alarm]
    ELSE LET reg == B.registry[receiver]
             kept == [t \in DOMAIN reg |-> KeepTopics(reg[t], topic)]
             left == {t \in DOMAIN reg : kept[t] # <<>>}
         IN Prune([B EXCEPT !.registry[receiver] = [t \in left |-> kept[t]]],
                  receiver, DOMAIN reg \ left)

\* ------------------------------------------- the clocks of the benchmark
\* TestSimulationClock1 keeps its wake-up times in a heap (heapq on a list),
\* TestSimulationClock2 keeps them sorted in a deque (bisect.insort).  A
\* clock is a record of its time, its wake-up times, the clients to wake up
\* at every time, the registry of every receiver, the highest wake-up time
\* of an alarm that is not dropped on idle, and the mail queue of its
\* scheduler.
NewTestClock ==
    [time |-> 0,
     alarm_time |-> <<>>,
     clients_to_wake_up |-> [t \in {} |-> {}],
     registry |-> [r \in UserAgents |-> [t \in {} |-> <<>>]],
     last_required_alarm |-> 0,
     mail_queue |-> <<>>]

\* tick(limit=None): no limit given
NoLimit == -1

\* Python's min of two numbers
Min(x, y) == IF x <= y THEN x ELSE y

\* "if not limit: limit = inf": None and 0 are both false in Python
NotLimit(limit) == limit = NoLimit \/ limit = 0

\* Python's max of two numbers
Larger(x, y) == IF x >= y THEN x ELSE y

\* heapq._siftdown(heap, startpos, pos): newitem, the item at pos, moves
\* towards the root while its parent is greater.  Positions count from 0.
RECURSIVE SiftDown(_, _, _, _)
SiftDown(heap, startpos, pos, newitem) ==
    LET parentpos == (pos - 1) \div 2
    IN IF pos > startpos /\ newitem < heap[parentpos + 1]
       THEN SiftDown([heap EXCEPT ![pos + 1] = heap[parentpos + 1]],
                     startpos, parentpos, newitem)
       ELSE [heap EXCEPT ![pos + 1] = newitem]

\* a push that puts the item last and leaves the others where they are
PushLast(heap, item) == Append(heap, item)

\* heapq.heappush(heap, item)
HeapPush(heap, item) == SiftDown(Append(heap, item), 0, Len(heap), item)

\* heapq._siftup(heap, 0): the smaller child moves up until a leaf is hit,
\* newitem is put there and sifted down again
RECURSIVE SiftUp(_, _, _)
SiftUp(heap, pos, newitem) ==
    LET endpos == Len(heap)
        childpos == 2 * pos + 1
        rightpos == childpos + 1
        smaller == IF rightpos < endpos /\ ~(heap[childpos + 1] < heap[rightpos + 1])
                   THEN rightpos ELSE childpos
    IN IF childpos < endpos
       THEN SiftUp([heap EXCEPT ![pos + 1] = heap[smaller + 1]], smaller, newitem)
       ELSE SiftDown([heap EXCEPT ![pos + 1] = newitem], 0, pos, newitem)

\* a pop that takes the first item and leaves the others where they are
PopFirst(heap) == Tail(heap)

\* heapq.heappop(heap): what is left of a non-empty heap; the item returned
\* is heap[0]
HeapPop(heap) ==
    LET lastelt == heap[Len(heap)]
        rest == SubSeq(heap, 1, Len(heap) - 1)
    IN IF rest = <<>> THEN <<>>
       ELSE SiftUp([rest EXCEPT ![1] = lastelt], 0, lastelt)

\* bisect.insort(a, x): x goes after the entries that are not greater
RECURSIVE Insort(_, _)
Insort(a, x) ==
    IF a = <<>> THEN <<x>>
    ELSE IF x < Head(a) THEN <<x>> \o a
    ELSE <<Head(a)>> \o Insort(Tail(a), x)

\* the heap that holds the items of a sequence
RECURSIVE Heapify(_)
Heapify(q) ==
    IF q = <<>> THEN <<>> ELSE HeapPush(Heapify(SubSeq(q, 1, Len(q) - 1)), q[Len(q)])

\* AlarmRegistry.set_alarm(wakeup_time, message): append to the bucket
AlarmRegistrySet(reg, wakeup_time, msg) ==
    [t \in DOMAIN reg \cup {wakeup_time} |->
        IF t = wakeup_time
        THEN Append(IF t \in DOMAIN reg THEN reg[t] ELSE <<>>, msg)
        ELSE reg[t]]

\* AlarmRegistry.release_alarm(t): the messages of the buckets up to t, in
\* the order of their times
RECURSIVE ReleaseAlarm(_, _)
ReleaseAlarm(reg, t) ==
    LET due == {u \in DOMAIN reg : u <= t}
        first == CHOOSE u \in due : \A v \in due : u <= v
    IN IF due = {} THEN <<>>
       ELSE reg[first] \o ReleaseAlarm([u \in DOMAIN reg \ {first} |-> reg[u]], t)

\* the registry after release_alarm(t): the buckets up to t are gone
AfterRelease(reg, t) == [u \in {v \in DOMAIN reg : v > t} |-> reg[u]]

\* the order in which the clients of a wake-up time are visited
ClientOrder == <<"1", "2">>

\* the loop over the clients in release_alarm_messages
RECURSIVE ReleaseClients(_, _, _, _)
ReleaseClients(registry, order, clients, timestamp) ==
    IF order = <<>> THEN <<>>
    ELSE (IF Head(order) \in clients
          THEN ReleaseAlarm(registry[Head(order)], timestamp) ELSE <<>>)
         \o ReleaseClients(registry, Tail(order), clients, timestamp)

\* the kinds of clock
HeapClock == "TestSimulationClock1"
DequeClock == "TestSimulationClock2"

\* set_alarm(delay, alarm_message, ignore_alarm_if_idle) of both clocks
TestSetAlarm(C, kind, delay, alarm_message, ignore_alarm_if_idle) ==
    LET wakeup_time == C.time + delay
        receiver == alarm_message.receiver
        known == wakeup_time \in DOMAIN C.clients_to_wake_up
    IN [C EXCEPT
          !.last_required_alarm =
              IF ~ignore_alarm_if_idle THEN Larger(@, wakeup_time) ELSE @,
          !.alarm_time =
              IF known THEN @
              ELSE IF kind = HeapClock THEN HeapPush(@, wakeup_time)
              ELSE Insort(@, wakeup_time),
          !.registry[receiver] = AlarmRegistrySet(@, wakeup_time, alarm_message),
          !.clients_to_wake_up =
              [t \in DOMAIN C.clients_to_wake_up \cup {wakeup_time} |->
                  IF t = wakeup_time
                  THEN (IF known THEN C.clients_to_wake_up[t] ELSE {}) \cup {receiver}
                  ELSE C.clients_to_wake_up[t]]]

\* the wake-up times after heappop (heap) or popleft (deque)
PopTime(alarm_time, kind) ==
    IF kind = HeapClock THEN HeapPop(alarm_time) ELSE Tail(alarm_time)

\* release_alarm_messages() of both clocks: the first wake-up time is
\* popped, whatever the time is, the alarms its clients hold up to it go to
\* the mail queue, and its clients are forgotten
TestReleaseAlarmMessages(C, kind) ==
    IF C.alarm_time = <<>> THEN C
    ELSE LET timestamp == Head(C.alarm_time)
             clients == IF timestamp \in DOMAIN C.clients_to_wake_up
                        THEN C.clients_to_wake_up[timestamp] ELSE {}
         IN [C EXCEPT
               !.alarm_time = PopTime(@, kind),
               !.mail_queue =
                   @ \o ReleaseClients(C.registry, ClientOrder, clients, timestamp),
               !.registry =
                   [r \in DOMAIN @ |->
                       IF r \in clients THEN AfterRelease(@[r], timestamp) ELSE @[r]],
               !.clients_to_wake_up =
                   [t \in DOMAIN @ \ {timestamp} |-> C.clients_to_wake_up[t]]]

\* tick(limit) of both clocks, needs_update being that of the scheduler
TestTick(C, nu, limit) ==
    IF C.mail_queue # <<>> THEN C
    ELSE IF nu # {} THEN C
    ELSE IF C.alarm_time # <<>>
         THEN [C EXCEPT !.time = IF NotLimit(limit) THEN Head(C.alarm_time)
                                 ELSE Min(Head(C.alarm_time), limit)]
         ELSE C

\* clear_alarms(receiver, topic) on a clock of the benchmark: the clearing
\* of the clock they extend; the heap is a heap of the times that are left
TestClearAlarms(C, kind, receiver, topic) ==
    IF receiver = None
    THEN [C EXCEPT !.alarm_time = <<>>,
                   !.clients_to_wake_up = NewTestClock.clients_to_wake_up,
                   !.registry = NewTestClock.registry]
    ELSE LET D == ClockClearAlarms(C, receiver, topic)
         IN IF kind = HeapClock THEN [D EXCEPT !.alarm_time = Heapify(@)] ELSE D

\* ----------------------------------------------- the MailMan of outscale
\* The MailMan relays the messages in its inbox.  An entry of the inbox is a
\* message, or the DeferredDeliveryMessage that envelopes it (envelope), with
\* the receiver the envelope was set for (intended).  left is the message's
\* _delivery_attempts_left; tolerated is what it started with and attempts
\* counts the failed deliveries.
NewMailMan ==
    [inbox |-> <<>>,
     agent_register |-> {},
     mailing_lists |-> [k \in {} |-> {}],
     agent_inbox |-> [a \in UserAgents |-> <<>>],
     posted |-> 0,
     updates |-> 0]

\* AgentMessage(sender, receiver, topic, tolerated_delivery_attempts)
MailManMessage(n, receiver, topic, tolerated_delivery_attempts) ==
    [uuid |-> n, receiver |-> receiver, topic |-> topic,
     left |-> tolerated_delivery_attempts,
     tolerated |-> tolerated_delivery_attempts,
     attempts |-> 0, envelope |-> FALSE, intended |-> None]

\* MailMan.defer_delivery(msg, intended_receiver): failed_delivery_attempt
\* takes one from the attempts left; at 0 the message is dumped, otherwise
\* its envelope is appended to the inbox
DeferDelivery(M, msg, intended_receiver) ==
    LET failed == [msg EXCEPT !.left = @ - 1, !.attempts = @ + 1]
    IN IF failed.left = 0 THEN M
       ELSE [M EXCEPT !.inbox = Append(@, [failed EXCEPT !.envelope = TRUE,
                                                         !.intended = intended_receiver])]

\* MailMan.send(msg, receiver) with a receiver
MailManSend(M, msg, receiver) ==
    IF receiver \in M.agent_register
    THEN [M EXCEPT !.agent_inbox[receiver] = Append(@, msg)]
    ELSE DeferDelivery(M, msg, receiver)

\* MailMan.send_to_recipients(msg, recipients), the recipients being visited
\* in the order given
RECURSIVE MailManSendAll(_, _, _, _)
MailManSendAll(M, msg, order, recipients) ==
    IF order = <<>> THEN M
    ELSE MailManSendAll(IF Head(order) \in recipients
                        THEN MailManSend(M, msg, Head(order)) ELSE M,
                        msg, Tail(order), recipients)

\* the subscribers of a key of the MailMan's mailing lists
Listed(M, k) == IF k \in DOMAIN M.mailing_lists THEN M.mailing_lists[k] ELSE {}

\* MailMan.retry_deferred_delivery(envelope): the original message goes back
\* to the inbox when the intended receiver is a mailing list and no agent,
\* and is sent to the intended receiver otherwise
RetryDeferredDelivery(M, e) ==
    LET original_message == [e EXCEPT !.envelope = FALSE, !.intended = None]
    IN IF e.intended \notin M.agent_register /\ e.intended \in DOMAIN M.mailing_lists
       THEN [M EXCEPT !.inbox = Append(@, original_message)]
       ELSE MailManSend(M, original_message, e.intended)

\* the body of the loop of MailMan.update for one entry of the inbox
MailManRelay(M, msg) ==
    IF msg.envelope THEN RetryDeferredDelivery(M, msg)
    ELSE LET recipients == Listed(M, msg.receiver) \cup Listed(M, msg.topic)
         IN IF recipients # {}
            THEN MailManSendAll(M, msg, ClientOrder, recipients)
            ELSE DeferDelivery(M, msg, msg.receiver)

\* MailMan.update: the entries in the inbox up to the sentinel are relayed;
\* what is appended meanwhile waits behind the sentinel for the next update
RECURSIVE MailManUpdate(_, _)
MailManUpdate(M, before_sentinel) ==
    IF before_sentinel = <<>> THEN M
    ELSE MailManUpdate(MailManRelay(M, Head(before_sentinel)), Tail(before_sentinel))

\* MailMan.process_subscribe_message
MailManSubscribe(M, agent_uuid, subscription_topic) ==
    [M EXCEPT !.mailing_lists =
        [k \in DOMAIN @ \cup {subscription_topic} |->
            IF k = subscription_topic THEN Listed(M, k) \cup {agent_uuid} ELSE @[k]]]

\* MailMan.add(agent): the agent is registered, and subscribed to its uuid
\* and to its class
MailManAdd(M, a) ==
    MailManSubscribe(
        MailManSubscribe([M EXCEPT !.agent_register = @ \cup {a}], a, a),
        a, AgentClass)

\* ------------------------------------------- the partitions of the tests
\* test_multiprocessing: main.new_partition() twice, agents added to each
PartitionOrder == <<"s1", "s2">>

Partitions == {"s1", "s2"}

MPAgents == {"1", "2", "3"}

\* MPScheduler.agents of a partition
PartitionAgents(p) == IF p = "s1" THEN {"1", "2"} ELSE {"3"}

\* MPmain._start: self.agents[id] = name, for every agent of every link
MainAgents ==
    [a \in MPAgents |-> CHOOSE p \in Partitions : a \in PartitionAgents(p)]

\* ChainMsg(s, r); forwarded counts the times MPmain passed the message on
ChainMsg(n, s, r) == [id |-> n, s |-> s, r |-> r, forwarded |-> 0]

\* a queue that forgets what is put on it
QueueDrop(q, msg) == q

\* multiprocessing.Queue.put: first in, first out
QueuePut(q, msg) == Append(q, msg)

\* MPmain(), Link() and MPScheduler() as constructed: every queue empty, every
\* process at the top of its loop
NewPartitions ==
    [mail_queue |-> [p \in Partitions |-> <<>>],
     at         |-> [p \in Partitions |-> "inter"],
     pos        |-> [p \in Partitions |-> 0],
     to_mp      |-> [p \in Partitions |-> <<>>],
     to_proc    |-> [p \in Partitions |-> <<>>],
     inbox      |-> [a \in MPAgents |-> <<>>],
     main_at    |-> "for",
     outer      |-> 1,
     link       |-> "s1",
     left       |-> 0,
     posted     |-> 0]

\* MPmain.process_mail_queue: the inner loop ends (range exhausted, or queue.Empty
\* with the link alive: break) and the outer loop takes the next link; after
\* the last link the method returns and run calls it again
MainNextLink(P) ==
    [P EXCEPT !.main_at = "for",
              !.outer = (P.outer % Len(PartitionOrder)) + 1,
              !.left = 0]

\* --------------------------------------------------------------------- Init
Boot(speed) ==
    /\ agents = {}
    /\ is_setup = [a \in Ids |-> FALSE]
    /\ keep_awake = [a \in Ids |-> FALSE]
    /\ inbox = [a \in Ids |-> <<>>]
    /\ outbox = [a \in Ids |-> <<>>]
    /\ sched_time = 0
    /\ mail_queue = <<>>
    /\ mailing_lists = [k \in {} |-> {}]
    /\ needs_update = {}
    /\ has_keep_awake = {}
    /\ pause = FALSE
    /\ pause_if_idle = TRUE
    /\ iterations_to_halt = NoIterations
    /\ message_count = <<>>
    /\ alarms = <<>>
    /\ clock_time = 0
    /\ clock_paused = TRUE
    /\ uuid_counter = 1
    /\ pc = "idle"
    /\ todo = {}
    /\ err = "none"
    /\ log = <<>>
    /\ run_info = NoRun
    /\ clock_speed = speed
    /\ wake_log = NoAlarms
    /\ hook = [a \in Ids |-> "none"]
    /\ returned = NoMessage
    /\ subscription_calls = <<>>
    /\ alarm_book = NoAlarmBook
    /\ cleared = NoClear
    /\ clock1 = NewTestClock
    /\ clock2 = NewTestClock
    /\ mailman = NewMailMan
    /\ mp = NewPartitions

\* Scheduler(): clock_speed=None, a simulation clock
Init == Boot(None)

\* Scheduler(clock_speed=None) or Scheduler(clock_speed=1)
RealTime == "1"
InitClock == \E speed \in {None, RealTime} : Boot(speed)

\* ----------------------------------------------------------------- actions
ApplyRegistry(S) ==
    /\ agents' = S.agents
    /\ is_setup' = S.is_setup
    /\ mailing_lists' = S.ml
    /\ needs_update' = S.nu
    /\ has_keep_awake' = S.hka
    /\ outbox' = S.outbox
    /\ mail_queue' = S.mq
    /\ pause' = S.pause
    /\ uuid_counter' = S.n
    /\ err' = S.err
    /\ hook' = S.hook

\* the caller: scheduler.add(agent)
EnvAdd(a) ==
    /\ UNCHANGED <<returned, subscription_calls, alarm_book, cleared, clock1, clock2, mailman, mp>>
    /\ UNCHANGED <<clock_speed, wake_log>>
    /\ pc = "idle"
    /\ ApplyRegistry(Add(Registry, a))
    /\ log' = <<>>
    /\ run_info' = NoRun
    /\ UNCHANGED <<keep_awake, inbox, sched_time, pause_if_idle, iterations_to_halt,
                   message_count, alarms, clock_time, clock_paused, pc, todo>>

\* the caller: scheduler.remove(agent) or scheduler.remove(uuid)
EnvRemove(a, by_uuid) ==
    /\ UNCHANGED <<returned, subscription_calls, alarm_book, cleared, clock1, clock2, mailman, mp>>
    /\ UNCHANGED <<clock_speed, wake_log>>
    /\ pc = "idle"
    /\ ApplyRegistry(Remove(Registry, a, by_uuid))
    /\ log' = <<>>
    /\ run_info' = NoRun
    /\ UNCHANGED <<keep_awake, inbox, sched_time, pause_if_idle, iterations_to_halt,
                   message_count, alarms, clock_time, clock_paused, pc, todo>>

\* the caller uses the API of a registered agent a between two runs;
\* an alarm is then set with relative=False
EnvCall(a, c) ==
    /\ UNCHANGED <<hook, returned, subscription_calls, alarm_book, cleared, clock1, clock2, mailman, mp>>
    /\ UNCHANGED clock_speed
    /\ pc = "idle"
    /\ a \in agents
    /\ c.op # "none"
    /\ ~c.rel
    /\ CallAllowed(a, c, 0)
    /\ outbox' = [outbox EXCEPT ![a] = @ \o Outgoing(a, c, uuid_counter, 0)]
    /\ wake_log' = AlarmsSet(wake_log, Outgoing(a, c, uuid_counter, 0))
    /\ keep_awake' = [keep_awake EXCEPT ![a] = KeepAwakeAfter(a, c)]
    /\ uuid_counter' = uuid_counter + Drawn(c)
    /\ err' = "none"
    /\ log' = <<>>
    /\ run_info' = NoRun
    /\ UNCHANGED <<agents, is_setup, inbox, sched_time, mail_queue, mailing_lists,
                   needs_update, has_keep_awake, pause, pause_if_idle,
                   iterations_to_halt, message_count, alarms, clock_time,
                   clock_paused, pc, todo>>

\* the caller, between two runs: agent.set_timed_alarm(t), for up to
\* MaxAlarms alarms
\* Agent.send and Agent.subscribe called on an agent that no scheduler has
\* been given: the message is appended to the agent's outbox
SendUnregistered(a, c) ==
    /\ UNCHANGED <<hook, returned, subscription_calls, alarm_book, cleared, clock1, clock2, mailman, mp, clock_speed, wake_log>>
    /\ pc = "idle"
    /\ a \notin agents
    /\ c.op \in {"send", "subscribe"}
    /\ CallAllowed(a, c, 0)
    /\ outbox' = [outbox EXCEPT ![a] = @ \o Outgoing(a, c, uuid_counter, 0)]
    /\ uuid_counter' = uuid_counter + Drawn(c)
    /\ err' = "none"
    /\ log' = <<>>
    /\ run_info' = NoRun
    /\ UNCHANGED <<agents, is_setup, keep_awake, inbox, sched_time, mail_queue,
                   mailing_lists, needs_update, has_keep_awake, pause, pause_if_idle,
                   iterations_to_halt, message_count, alarms, clock_time,
                   clock_paused, pc, todo>>

EnvAlarm(a, t) ==
    /\ UNCHANGED <<hook, returned, subscription_calls, alarm_book, cleared, clock1, clock2, mailman, mp>>
    /\ pc = "idle"
    /\ a \in agents
    /\ uuid_counter + 2 <= 2 * MaxAlarms + 1
    /\ LET c == Call("alarm", None, None, t, FALSE) IN
       /\ outbox' = [outbox EXCEPT ![a] = @ \o Outgoing(a, c, uuid_counter, 0)]
       /\ wake_log' = AlarmsSet(wake_log, Outgoing(a, c, uuid_counter, 0))
    /\ uuid_counter' = uuid_counter + 2
    /\ err' = "none"
    /\ log' = <<>>
    /\ run_info' = NoRun
    /\ UNCHANGED <<agents, is_setup, keep_awake, inbox, sched_time, mail_queue,
                   mailing_lists, needs_update, has_keep_awake, pause, pause_if_idle,
                   iterations_to_halt, message_count, alarms, clock_time,
                   clock_paused, pc, todo, clock_speed>>

SubscribeAll(ml, who, keys) ==
    [k \in DOMAIN ml \cup keys |->
        (IF k \in DOMAIN ml THEN ml[k] ELSE {}) \cup (IF k \in keys THEN {who} ELSE {})]

\* the first half of Scheduler.update_all_agents, from the registry S: the
\* keep-awake agents join needs_update, the clock is updated and its outbox is
\* moved to the mail queue; the for loop over needs_update follows
BeginUpdateAll(S, next_pc) ==
    LET cu == ClockUpdate(inbox[ClockId]) IN
    /\ ApplyRegistry([S EXCEPT !.nu = @ \cup S.hka,
                               !.mq = @ \o S.outbox[ClockId] \o cu[2],
                               !.outbox[ClockId] = <<>>,
                               !.hook[ClockId] = "update"])
    /\ alarms' = cu[1]
    /\ inbox' = [inbox EXCEPT ![ClockId] = <<>>]
    /\ clock_paused' = FALSE
    /\ todo' = S.nu \cup S.hka
    /\ pc' = next_pc

\* Scheduler.run up to the main loop.  seconds = -1 and iterations = -1 stand
\* for arguments not given; idle is "" (not given), "True" or "False".
RunCall(seconds, iterations, idle) ==
    /\ UNCHANGED <<returned, subscription_calls, alarm_book, cleared, clock1, clock2, mailman, mp>>
    /\ UNCHANGED clock_speed
    /\ pc = "idle"
    /\ seconds >= 0 => /\ uuid_counter + 2 <= MaxUuid + MaxRunUuid + 1
                       /\ sched_time + seconds <= MaxTime
    /\ LET n == uuid_counter
           timed == IF seconds >= 0
                    THEN <<AlarmMessage(n + 1, SchedulerId,
                                        sched_time + seconds,
                                        PauseMessage(n, SchedulerId, SchedulerId))>>
                    ELSE <<>>
           updated_agents == {a \in agents : inbox[a] # <<>> \/ outbox[a] # <<>>}
           S0 == [Registry EXCEPT !.outbox[SchedulerId] = @ \o timed,
                                  !.n = IF seconds >= 0 THEN n + 2 ELSE n,
                                  !.pause = FALSE,
                                  !.nu = @ \cup updated_agents]
           \* Scheduler.setup
           S1 == [S0 EXCEPT !.is_setup[SchedulerId] = TRUE,
                            !.ml = SubscribeAll(@, SchedulerId,
                                     {SchedulerId, SchedulerClass} \cup SchedulerOperations),
                            !.mq = @ \o S0.outbox[SchedulerId],
                            !.outbox[SchedulerId] = <<>>]
           S2 == Add(S1, ClockId)
       IN /\ iterations_to_halt' = iterations
          /\ wake_log' = AlarmsSet(wake_log, timed)
          /\ pause_if_idle' = IF idle = "" THEN pause_if_idle ELSE idle = "True"
          /\ run_info' = [deadline |-> IF seconds >= 0 THEN clock_time + seconds ELSE -1,
                          budget |-> [a \in UserAgents |->
                                        IF iterations >= 0 THEN iterations ELSE NoBudget],
                          first |-> ~is_setup[SchedulerId],
                          alarm |-> IF seconds >= 0 THEN n ELSE 0,
                          exit |-> IF ~is_setup[SchedulerId] /\ S2.err # "none"
                                   THEN "raised" ELSE "",
                          asked |-> 0,
                          iterations |-> iterations,
                          posted |-> UNION {
                             {outbox[a][i].uuid :
                                i \in {j \in DOMAIN outbox[a] :
                                         outbox[a][j].receiver \in UserAgents}} :
                             a \in agents \cap UserAgents},
                          seconds |-> seconds,
                          loops |-> 0]
          /\ log' = <<>>
          /\ UNCHANGED <<keep_awake, sched_time, message_count, clock_time>>
          /\ IF is_setup[SchedulerId]
             THEN /\ ApplyRegistry(S0)
                  /\ pc' = "loop"
                  /\ UNCHANGED <<inbox, alarms, clock_paused, todo>>
             ELSE IF S2.err # "none"
             THEN /\ ApplyRegistry(S2)
                  /\ pc' = "idle"
                  /\ UNCHANGED <<inbox, alarms, clock_paused, todo>>
             ELSE BeginUpdateAll(S2, "setup_agents")

\* Scheduler.update_iterations_to_halt: <<iterations_to_halt, pause>> after it
UpdateIterationsToHalt(ith, p) ==
    IF ith = NoIterations THEN <<ith, p>>
    ELSE IF ith > 0 THEN <<ith - 1, p>>
    ELSE <<ith, TRUE>>

\* the top of the while loop of Scheduler.update: update_iterations_to_halt,
\* the pause test (run then returns and pauses the clock), and the first
\* half of update_all_agents
IterStart ==
    /\ UNCHANGED <<returned, subscription_calls, alarm_book, cleared, clock1, clock2, mailman, mp>>
    /\ UNCHANGED <<clock_speed, wake_log>>
    /\ pc = "loop"
    /\ LET h == UpdateIterationsToHalt(iterations_to_halt, pause) IN
       /\ iterations_to_halt' = h[1]
       /\ log' = <<>>
       /\ UNCHANGED <<keep_awake, sched_time, pause_if_idle, message_count,
                      clock_time>>
       /\ run_info' = IF h[2] /\ ~pause THEN [run_info EXCEPT !.exit = "halt"]
                      ELSE IF h[2] THEN run_info
                      ELSE [run_info EXCEPT
                              !.asked = IF @ = 1 THEN 2 ELSE @,
                              !.loops = IF @ < 2 THEN @ + 1 ELSE @]
       /\ IF h[2]
          THEN /\ pause' = TRUE
               /\ clock_paused' = TRUE
               /\ pc' = "idle"
               /\ err' = "none"
               /\ UNCHANGED <<agents, is_setup, inbox, outbox, mail_queue, mailing_lists,
                              needs_update, has_keep_awake, alarms, uuid_counter, todo,
                              hook>>
          ELSE BeginUpdateAll(Registry, "agents")

\* Scheduler.maintain_keep_awake_list
MaintainKeepAwake(hka, a, awake) == IF awake THEN hka \cup {a} ELSE hka \ {a}

\* what an update of a user agent does with its inbox: empty it or leave it
AfterReceive(box, drain) == IF drain THEN <<>> ELSE box

Spend(b) == IF b = NoBudget \/ b < 0 THEN b ELSE b - 1

\* one pass of the for loop of update_all_agents: self.agents[uuid], then
\* update_agent (agent.time = clock.time, agent.run(), send_and_receive) and
\* maintain_keep_awake_list.  The update of a user agent takes what it wants
\* from its inbox (drain) and makes one API call c.
UpdateAgent(a, drain, c) ==
    /\ UNCHANGED <<returned, subscription_calls, alarm_book, cleared, clock1, clock2, mailman, mp>>
    /\ UNCHANGED clock_speed
    /\ pc \in {"agents", "setup_agents"}
    /\ a \in todo
    /\ log' = <<>>
    /\ UNCHANGED <<agents, is_setup, mailing_lists, needs_update, pause, pause_if_idle,
                   iterations_to_halt, message_count, clock_time, clock_paused,
                   sched_time>>
    /\ wake_log' = IF a \in UserAgents \cap agents
                   THEN AlarmsSet(wake_log, Outgoing(a, c, uuid_counter, clock_time))
                   ELSE wake_log
    /\ hook' = IF a \in agents THEN [hook EXCEPT ![a] = "update"] ELSE hook
    /\ IF a \notin agents
       THEN /\ drain /\ c.op = "none"
            /\ err' = "KeyError"
            /\ pc' = "idle"
            /\ todo' = {}
            /\ UNCHANGED <<keep_awake, inbox, outbox, mail_queue,
                           has_keep_awake, alarms, uuid_counter, run_info>>
       ELSE IF a = ClockId
       THEN LET cu == ClockUpdate(inbox[ClockId]) IN
            /\ drain /\ c.op = "none"
            /\ alarms' = cu[1]
            /\ inbox' = [inbox EXCEPT ![ClockId] = <<>>]
            /\ mail_queue' = mail_queue \o outbox[ClockId] \o cu[2]
            /\ outbox' = [outbox EXCEPT ![ClockId] = <<>>]
            /\ has_keep_awake' = MaintainKeepAwake(has_keep_awake, a, keep_awake[a])
            /\ todo' = todo \ {a}
            /\ err' = "none"
            /\ UNCHANGED <<keep_awake, uuid_counter, run_info, pc>>
       ELSE /\ CallAllowed(a, c, clock_time)
            /\ inbox' = [inbox EXCEPT ![a] = AfterReceive(@, drain)]
            /\ keep_awake' = [keep_awake EXCEPT ![a] = KeepAwakeAfter(a, c)]
            /\ mail_queue' = mail_queue \o outbox[a]
                                \o Outgoing(a, c, uuid_counter, clock_time)
            /\ outbox' = [outbox EXCEPT ![a] = <<>>]
            /\ uuid_counter' = uuid_counter + Drawn(c)
            /\ has_keep_awake' = MaintainKeepAwake(has_keep_awake, a, KeepAwakeAfter(a, c))
            /\ run_info' = [run_info EXCEPT
                              !.budget[a] = Spend(@),
                              !.asked = IF c.op = "pause" /\ pc = "agents" /\ @ = 0
                                        THEN 1 ELSE @]
            /\ todo' = todo \ {a}
            /\ err' = "none"
            /\ UNCHANGED <<alarms, pc>>

\* one pass of the for loop of update_all_agents in which the update of
\* agent a calls scheduler.remove(x) itself, on the scheduler it holds a
\* reference to: the removal takes x out of needs_update, has_keep_awake and
\* agents while the loop iterates over needs_update; send_and_receive and
\* maintain_keep_awake_list then go on with a, removed or not; and the next
\* step of the iteration raises RuntimeError ("Set changed size during
\* iteration") out of run when needs_update has lost a member.
UpdateRemoves(a, x) ==
    /\ UNCHANGED <<returned, subscription_calls, alarm_book, cleared, clock1, clock2, mailman, mp>>
    /\ UNCHANGED <<clock_speed, wake_log>>
    /\ pc = "agents"
    /\ a \in todo
    /\ a \in agents \cap UserAgents
    /\ LET S == Remove(Registry, x, FALSE)
           changed == S.nu # needs_update
       IN /\ agents' = S.agents
          /\ is_setup' = S.is_setup
          /\ mailing_lists' = S.ml
          /\ needs_update' = S.nu
          /\ has_keep_awake' = MaintainKeepAwake(S.hka, a, keep_awake[a])
          /\ mail_queue' = S.mq \o S.outbox[a]
          /\ outbox' = [S.outbox EXCEPT ![a] = <<>>]
          /\ hook' = IF a = x THEN S.hook ELSE [S.hook EXCEPT ![a] = "update"]
          /\ err' = IF changed THEN "RuntimeError" ELSE S.err
          /\ pc' = IF changed THEN "idle" ELSE pc
          /\ todo' = IF changed THEN {} ELSE todo \ {a}
    /\ inbox' = [inbox EXCEPT ![a] = <<>>]
    /\ run_info' = [run_info EXCEPT !.budget[a] = Spend(@)]
    /\ log' = <<>>
    /\ UNCHANGED <<keep_awake, sched_time, pause, pause_if_idle, iterations_to_halt,
                   message_count, alarms, clock_time, clock_paused, uuid_counter>>

\* the end of Scheduler.setup: needs_update.clear() and process_mail_queue()
SetupFinish ==
    /\ UNCHANGED <<hook, returned, subscription_calls, alarm_book, cleared, clock1, clock2, mailman, mp>>
    /\ UNCHANGED clock_speed
    /\ pc = "setup_agents"
    /\ todo = {}
    /\ LET P == ProcessMailQueue(
                  [mq |-> mail_queue, inbox |-> inbox, nu |-> {},
                   log |-> <<>>, err |-> "none", count |-> Cardinality(has_keep_awake)],
                  mailing_lists, agents)
       IN /\ mail_queue' = P.mq
          /\ inbox' = P.inbox
          /\ needs_update' = P.nu
          /\ log' = P.log
          /\ wake_log' = Woken(wake_log, P.log)
          /\ err' = P.err
          /\ message_count' = IF P.err = "none" THEN AppendMax3(message_count, P.count)
                              ELSE message_count
          /\ pc' = IF P.err = "none" THEN "loop" ELSE "idle"
    /\ UNCHANGED <<agents, is_setup, keep_awake, outbox, sched_time, mailing_lists, uuid_counter,
                   has_keep_awake, pause, pause_if_idle, iterations_to_halt, alarms,
                   clock_time, clock_paused, todo, run_info>>

\* Scheduler.advance_clock_if_agents_are_idle: the clock time after it
AdvanceClockIfIdle(mc, al, box, now) ==
    IF SeqSum(mc) = 0 /\ ClockIsWaiting(al, box) THEN AdvanceTime(al, now) ELSE now

\* check_pause_if_idle_flag, had it not asked the clock
CheckPauseIfIdleNoClock(mc, al, box, idle, p) ==
    IF SeqSum(mc) = 0 /\ idle THEN TRUE ELSE p

\* check_pause_if_idle_flag, had it never paused
CheckPauseIfIdleNever(mc, al, box, idle, p) == p

\* Scheduler.check_pause_if_idle_flag: Scheduler.pause after it
CheckPauseIfIdle(mc, al, box, idle, p) ==
    IF SeqSum(mc) = 0 /\ ClockIsIdle(al, box) /\ idle THEN TRUE ELSE p

\* the rest of one iteration of Scheduler.update, after the for loop of
\* update_all_agents: needs_update.clear(), scheduler_update,
\* process_mail_queue, advance_clock_if_agents_are_idle,
\* check_pause_if_idle_flag (micro_sleep_if_idle changes no state)
IterFinish ==
    /\ UNCHANGED <<returned, subscription_calls, alarm_book, cleared, clock1, clock2, mailman, mp>>
    /\ UNCHANGED clock_speed
    /\ pc = "agents"
    /\ todo = {}
    /\ LET r == SchedulerReadInbox([Registry EXCEPT !.nu = {}], inbox[SchedulerId])
           S1 == r[1]
           S2 == [S1 EXCEPT !.mq = @ \o S1.outbox[SchedulerId],
                            !.outbox[SchedulerId] = <<>>]
           P == ProcessMailQueue(
                  [mq |-> S2.mq, inbox |-> [inbox EXCEPT ![SchedulerId] = <<>>],
                   nu |-> S2.nu, log |-> <<>>, err |-> "none",
                   count |-> Cardinality(S2.hka)],
                  S2.ml, S2.agents)
           mc == AppendMax3(message_count, P.count)
           idle_pause == CheckPauseIfIdle(mc, alarms, P.inbox[ClockId],
                                          pause_if_idle, S2.pause)
       IN /\ sched_time' = clock_time
          /\ run_info' = IF S1.err # "none" \/ P.err # "none" THEN run_info
                         ELSE IF S2.pause THEN [run_info EXCEPT !.exit = "pause"]
                         ELSE IF idle_pause THEN [run_info EXCEPT !.exit = "idle"]
                         ELSE run_info
          /\ IF S1.err # "none"
             THEN /\ ApplyRegistry(S1)
                  /\ inbox' = [inbox EXCEPT ![SchedulerId] = r[2]]
                  /\ pc' = "idle"
                  /\ log' = <<>>
                  /\ UNCHANGED <<message_count, clock_time, wake_log>>
             ELSE /\ ApplyRegistry([S2 EXCEPT !.mq = P.mq, !.nu = P.nu,
                                              !.err = P.err,
                                              !.pause = IF P.err = "none"
                                                        THEN idle_pause ELSE S2.pause])
                  /\ inbox' = P.inbox
                  /\ log' = P.log
                  /\ wake_log' = Woken(wake_log, P.log)
                  /\ message_count' = IF P.err = "none" THEN mc ELSE message_count
                  /\ clock_time' = IF P.err = "none"
                                   THEN AdvanceClockIfIdle(mc, alarms, P.inbox[ClockId],
                                                           clock_time)
                                   ELSE clock_time
                  /\ pc' = IF P.err = "none" THEN "loop" ELSE "idle"
    /\ UNCHANGED <<keep_awake, pause_if_idle, iterations_to_halt, alarms,
                   clock_paused, todo>>

\* ---------------------------------------------- the scheduler, called directly
\* scheduler.process_subscribe_message(SubscribeMessage(a, k)), as
\* scheduler_update does for a SubscribeMessage of agent a
Subscribe(a, k) ==
    /\ UNCHANGED <<hook, returned, subscription_calls, alarm_book, cleared, clock1, clock2, mailman, mp>>
    /\ UNCHANGED <<clock_speed, wake_log>>
    /\ pc = "idle"
    /\ mailing_lists' = ProcessSubscribe(mailing_lists, a, k)
    /\ err' = "none"
    /\ log' = <<>>
    /\ UNCHANGED <<agents, is_setup, keep_awake, inbox, outbox, sched_time, mail_queue,
                   needs_update, has_keep_awake, pause, pause_if_idle,
                   iterations_to_halt, message_count, alarms, clock_time,
                   clock_paused, uuid_counter, pc, todo, run_info>>

\* scheduler.process_unsubscribe_message(UnSubscribeMessage(a, k)); k = None
\* unsubscribes a from everything
Unsubscribe(a, k) ==
    /\ UNCHANGED <<hook, returned, subscription_calls, alarm_book, cleared, clock1, clock2, mailman, mp>>
    /\ UNCHANGED <<clock_speed, wake_log>>
    /\ pc = "idle"
    /\ mailing_lists' = ProcessUnsubscribe(mailing_lists, a, k)
    /\ err' = "none"
    /\ log' = <<>>
    /\ UNCHANGED <<agents, is_setup, keep_awake, inbox, outbox, sched_time, mail_queue,
                   needs_update, has_keep_awake, pause, pause_if_idle,
                   iterations_to_halt, message_count, alarms, clock_time,
                   clock_paused, uuid_counter, pc, todo, run_info>>

\* agent a reads its inbox: Agent.receive until Agent.messages is False
Receive(a) ==
    /\ UNCHANGED <<hook, returned, subscription_calls, alarm_book, cleared, clock1, clock2, mailman, mp, clock_speed, wake_log>>
    /\ pc = "idle"
    /\ inbox[a] # <<>>
    /\ inbox' = [inbox EXCEPT ![a] = <<>>]
    /\ err' = "none"
    /\ log' = <<>>
    /\ UNCHANGED <<agents, is_setup, keep_awake, outbox, sched_time, mail_queue,
                   mailing_lists, needs_update, has_keep_awake, pause, pause_if_idle,
                   iterations_to_halt, message_count, alarms, clock_time,
                   clock_paused, uuid_counter, pc, todo, run_info>>

\* Agent.receive, had it popped the newest message
AgentReceiveNewest(box) ==
    IF box # <<>> THEN <<box[Len(box)], SubSeq(box, 1, Len(box) - 1)>>
    ELSE <<NoMessage, box>>

\* Agent.receive: <<what it returns, the inbox after it>>
AgentReceive(box) ==
    IF box # <<>> THEN <<Head(box), Tail(box)>> ELSE <<NoMessage, box>>

\* the caller: agent.receive(), once
ReceiveOne(a) ==
    /\ UNCHANGED <<hook, clock_speed, wake_log>>
    /\ pc = "idle"
    /\ returned' = AgentReceive(inbox[a])[1]
    /\ UNCHANGED <<subscription_calls, alarm_book, cleared, clock1, clock2, mailman, mp>>
    /\ inbox' = [inbox EXCEPT ![a] = AgentReceive(@)[2]]
    /\ err' = "none"
    /\ log' = <<>>
    /\ UNCHANGED <<agents, is_setup, keep_awake, outbox, sched_time, mail_queue,
                   mailing_lists, needs_update, has_keep_awake, pause, pause_if_idle,
                   iterations_to_halt, message_count, alarms, clock_time,
                   clock_paused, uuid_counter, pc, todo, run_info>>

\* send_and_receive with one message in the agent's outbox:
\* scheduler.mail_queue.append(AgentMessage(sender, receiver, topic))
Enqueue(sender, receiver, topic) ==
    /\ UNCHANGED <<hook, returned, subscription_calls, alarm_book, cleared, clock1, clock2, mailman, mp, clock_speed, wake_log>>
    /\ pc = "idle"
    /\ uuid_counter <= MaxUuid
    /\ mail_queue' = Append(mail_queue, AgentMessage(uuid_counter, sender, receiver, topic))
    /\ uuid_counter' = uuid_counter + 1
    /\ err' = "none"
    /\ log' = <<>>
    /\ UNCHANGED <<agents, is_setup, keep_awake, inbox, outbox, sched_time,
                   mailing_lists, needs_update, has_keep_awake, pause, pause_if_idle,
                   iterations_to_halt, message_count, alarms, clock_time,
                   clock_paused, pc, todo, run_info>>

\* the last two of a sequence of calls
LastTwo(q) == IF Len(q) > 2 THEN Tail(q) ELSE q

\* the caller: scheduler.process_subscribe_message(SubscribeMessage(a, k)) or
\* scheduler.process_unsubscribe_message(UnSubscribeMessage(a, k)); the call
\* is recorded with the mailing lists it found
SubscriptionCall(op, a, k) ==
    /\ UNCHANGED <<hook, returned, alarm_book, cleared, clock1, clock2, mailman, mp, clock_speed, wake_log>>
    /\ pc = "idle"
    /\ op \in {"subscribe", "unsubscribe"}
    /\ mailing_lists' = IF op = "subscribe" THEN ProcessSubscribe(mailing_lists, a, k)
                        ELSE ProcessUnsubscribe(mailing_lists, a, k)
    /\ subscription_calls' =
           LastTwo(Append(subscription_calls,
                          [op |-> op, a |-> a, k |-> k, ml |-> mailing_lists]))
    /\ err' = "none"
    /\ log' = <<>>
    /\ UNCHANGED <<agents, is_setup, keep_awake, inbox, outbox, sched_time, mail_queue,
                   needs_update, has_keep_awake, pause, pause_if_idle,
                   iterations_to_halt, message_count, alarms, clock_time,
                   clock_paused, uuid_counter, pc, todo, run_info>>

\* agent.set_alarm(alarm_time, alarm_message, relative=True,
\* ignore_alarm_if_idle=False) of a registered agent, the alarm message made
\* by the agent for a receiver with a topic
SetAlarm(a, receiver, alarm_time, topic) ==
    /\ UNCHANGED <<hook, returned, subscription_calls, clock1, clock2, mailman, mp, clock_speed, wake_log>>
    /\ pc = "idle"
    /\ a \in agents
    /\ uuid_counter <= MaxUuid
    /\ alarm_book' = RegistrySetAlarm(alarm_book, clock_time + alarm_time,
                                      AgentMessage(uuid_counter, a, receiver, topic), FALSE)
    /\ cleared' = NoClear
    /\ uuid_counter' = uuid_counter + 1
    /\ err' = "none"
    /\ log' = <<>>
    /\ UNCHANGED <<agents, is_setup, keep_awake, inbox, outbox, sched_time, mail_queue,
                   mailing_lists, needs_update, has_keep_awake, pause, pause_if_idle,
                   iterations_to_halt, message_count, alarms, clock_time,
                   clock_paused, pc, todo, run_info>>

\* the alarms pending in the clock, each with its registry and wake-up time
AlarmsPending(B) ==
    UNION {UNION {{<<r, t, B.registry[r][t][i]>> : i \in DOMAIN B.registry[r][t]} :
                  t \in DOMAIN B.registry[r]} : r \in DOMAIN B.registry}

\* agent.clear_alarms(receiver, topic) of a registered agent; the receiver
\* defaults to the agent itself
AgentClearAlarms(a, receiver, topic) ==
    /\ UNCHANGED <<hook, returned, subscription_calls, clock1, clock2, mailman, mp, clock_speed, wake_log>>
    /\ pc = "idle"
    /\ a \in agents
    /\ LET r == IF receiver = None THEN a ELSE receiver
       IN /\ alarm_book' = ClockClearAlarms(alarm_book, r, topic)
          /\ cleared' = [receiver |-> r, topic |-> topic,
                         pending |-> AlarmsPending(alarm_book)]
    /\ err' = "none"
    /\ log' = <<>>
    /\ UNCHANGED <<agents, is_setup, keep_awake, inbox, outbox, sched_time, mail_queue,
                   mailing_lists, needs_update, has_keep_awake, pause, pause_if_idle,
                   iterations_to_halt, message_count, alarms, clock_time,
                   clock_paused, uuid_counter, pc, todo, run_info>>

\* clock.clear_alarms() without a receiver, as at the end of a run with
\* clear_alarms_at_end
ClearAllAlarms ==
    /\ UNCHANGED <<hook, returned, subscription_calls, clock1, clock2, mailman, mp, clock_speed, wake_log>>
    /\ pc = "idle"
    /\ alarm_book.alarm_time # <<>>
    /\ alarm_book' = ClockClearAlarms(alarm_book, None, None)
    /\ cleared' = NoClear
    /\ err' = "none"
    /\ log' = <<>>
    /\ UNCHANGED <<agents, is_setup, keep_awake, inbox, outbox, sched_time, mail_queue,
                   mailing_lists, needs_update, has_keep_awake, pause, pause_if_idle,
                   iterations_to_halt, message_count, alarms, clock_time,
                   clock_paused, uuid_counter, pc, todo, run_info>>

\* --------------------------------- the scheduler of a sub-process (tests)
\* AgentMessage(sender, receiver, direct=True), as TransferNotification,
\* TransferAcceptance and Transfer are made
DirectMessage(n, sender, receiver, topic) ==
    [oid |-> n, uuid |-> n, sender |-> sender, receiver |-> receiver,
     topic |-> topic, sub |-> None, wake |-> 0, agent |-> None, inner |-> NoInner,
     direct |-> TRUE]

\* msg.direct
IsDirect(msg) == "direct" \in DOMAIN msg

\* the recipients of a message that is not direct: the subscribers of the
\* mailing lists that are local agents
RoutedRecipients(ml, msg, registered) == Recipients(ml, msg) \cap registered

\* the direct branch, had it looked the message up in the mailing lists
DirectBySubscription(ml, msg, registered) == Recipients(ml, msg) \cap registered

\* the recipients of a direct message: the receiver if it is a local agent;
\* otherwise the message goes to the queue of the main process
DirectRecipients(ml, msg, registered) ==
    IF msg.receiver \in registered THEN {msg.receiver} ELSE {}

\* the loop of the overridden process_mail_queue.  P = [mq, inbox, nu, log, err, out],
\* out the messages put on mq_to_main
RECURSIVE ProcessMailQueueDirect(_, _, _)
ProcessMailQueueDirect(P, ml, registered) ==
    IF P.mq = <<>> \/ P.err # "none" THEN P
    ELSE LET msg == Head(P.mq)
             recipients == IF IsDirect(msg) THEN DirectRecipients(ml, msg, registered)
                           ELSE RoutedRecipients(ml, msg, registered)
             D == SendToRecipients(
                    [inbox |-> P.inbox, nu |-> P.nu, got |-> <<>>, err |-> "none"],
                    msg, recipients, registered, 1)
         IN ProcessMailQueueDirect(
              [mq |-> Tail(P.mq), inbox |-> D.inbox, nu |-> D.nu,
               log |-> Append(P.log, [m |-> msg, rcpt |-> recipients, got |-> D.got]),
               err |-> D.err,
               out |-> IF IsDirect(msg) /\ recipients = {} THEN Append(P.out, msg)
                       ELSE P.out],
              ml, registered)

\* what process_inter_proc_mail finds on mq_to_self: nothing, or a direct
\* message of an agent of another process, n the next uuid
InterProcMail(n) ==
    {<<>>} \cup {<<DirectMessage(n, None, receiver, DefaultTopic)>> : receiver \in UserAgents}

\* the overridden Scheduler.process_mail_queue: the mail of the other
\* processes is appended to the mail queue, every message is delivered and
\* the mail queue is cleared.  The messages put on mq_to_main leave the
\* scheduler; the log keeps them as the entries with no recipient.
ProcessMailDirect(incoming) ==
    /\ UNCHANGED <<hook, returned, subscription_calls, alarm_book, cleared, clock1, clock2, mailman, mp, clock_speed, wake_log>>
    /\ pc = "idle"
    /\ mail_queue \o incoming # <<>>
    /\ uuid_counter + Len(incoming) <= MaxUuid + 1
    /\ uuid_counter' = uuid_counter + Len(incoming)
    /\ LET P == ProcessMailQueueDirect(
                  [mq |-> mail_queue \o incoming, inbox |-> inbox, nu |-> needs_update,
                   log |-> <<>>, err |-> "none", out |-> <<>>],
                  mailing_lists, agents)
       IN /\ mail_queue' = P.mq
          /\ inbox' = P.inbox
          /\ needs_update' = P.nu
          /\ log' = P.log
          /\ err' = P.err
    /\ UNCHANGED <<agents, is_setup, keep_awake, outbox, sched_time, mailing_lists,
                   has_keep_awake, pause, pause_if_idle, iterations_to_halt,
                   message_count, alarms, clock_time, clock_paused, pc, todo, run_info>>

\* the caller: scheduler.mail_queue.append(AgentMessage(sender, receiver, direct=True))
EnqueueDirect(sender, receiver, topic) ==
    /\ UNCHANGED <<hook, returned, subscription_calls, alarm_book, cleared, clock1, clock2, mailman, mp, clock_speed, wake_log>>
    /\ pc = "idle"
    /\ uuid_counter <= MaxUuid
    /\ mail_queue' = Append(mail_queue, DirectMessage(uuid_counter, sender, receiver, topic))
    /\ uuid_counter' = uuid_counter + 1
    /\ err' = "none"
    /\ log' = <<>>
    /\ UNCHANGED <<agents, is_setup, keep_awake, inbox, outbox, sched_time,
                   mailing_lists, needs_update, has_keep_awake, pause, pause_if_idle,
                   iterations_to_halt, message_count, alarms, clock_time,
                   clock_paused, pc, todo, run_info>>

\* the caller: scheduler.mail_queue.append("a non-AgentMessage"), for up to
\* MaxJunk such entries in the queue
EnqueueJunk ==
    /\ UNCHANGED <<hook, returned, subscription_calls, alarm_book, cleared, clock1, clock2, mailman, mp, clock_speed, wake_log>>
    /\ pc = "idle"
    /\ Cardinality({i \in DOMAIN mail_queue : ~IsAgentMessage(mail_queue[i])}) < MaxJunk
    /\ mail_queue' = Append(mail_queue, Junk)
    /\ err' = "none"
    /\ log' = <<>>
    /\ UNCHANGED <<agents, is_setup, keep_awake, inbox, outbox, sched_time,
                   mailing_lists, needs_update, has_keep_awake, pause, pause_if_idle,
                   iterations_to_halt, message_count, alarms, clock_time,
                   clock_paused, uuid_counter, pc, todo, run_info>>

\* scheduler.mail_queue.append(AgentMessage(sender, receiver, topic)), as
\* send_and_receive does with the outbox of an agent; the caller posts one
\* message at a time, when the agents have read the last one
Post(sender, receiver, topic) ==
    /\ UNCHANGED <<hook, returned, subscription_calls, alarm_book, cleared, clock1, clock2, mailman, mp>>
    /\ UNCHANGED <<clock_speed, wake_log>>
    /\ pc = "idle"
    /\ uuid_counter <= MaxUuid
    /\ mail_queue = <<>>
    /\ \A a \in Ids : inbox[a] = <<>>
    /\ mail_queue' = Append(mail_queue, AgentMessage(uuid_counter, sender, receiver, topic))
    /\ uuid_counter' = uuid_counter + 1
    /\ err' = "none"
    /\ log' = <<>>
    /\ UNCHANGED <<agents, is_setup, keep_awake, inbox, outbox, sched_time,
                   mailing_lists, needs_update, has_keep_awake, pause, pause_if_idle,
                   iterations_to_halt, message_count, alarms, clock_time,
                   clock_paused, pc, todo, run_info>>

\* scheduler.process_mail_queue(), called when there is mail
ProcessMail ==
    /\ UNCHANGED <<hook, returned, subscription_calls, alarm_book, cleared, clock1, clock2, mailman, mp>>
    /\ UNCHANGED clock_speed
    /\ pc = "idle"
    /\ mail_queue # <<>>
    /\ LET P == ProcessMailQueue(
                  [mq |-> mail_queue, inbox |-> inbox, nu |-> needs_update,
                   log |-> <<>>, err |-> "none", count |-> Cardinality(has_keep_awake)],
                  mailing_lists, agents)
       IN /\ mail_queue' = P.mq
          /\ inbox' = P.inbox
          /\ needs_update' = P.nu
          /\ log' = P.log
          /\ wake_log' = Woken(wake_log, P.log)
          /\ err' = P.err
          /\ message_count' = IF P.err = "none" THEN AppendMax3(message_count, P.count)
                              ELSE message_count
    /\ UNCHANGED <<agents, is_setup, keep_awake, outbox, sched_time, mailing_lists,
                   has_keep_awake, pause, pause_if_idle, iterations_to_halt, alarms,
                   clock_time, clock_paused, uuid_counter, pc, todo, run_info>>

\* --------------------------------------------------- the clock, on its own
\* an AlarmMessage of agent a for time t arrives in the inbox of the clock
ClockGetsAlarm(a, t) ==
    /\ UNCHANGED <<hook, returned, subscription_calls, alarm_book, cleared, clock1, clock2, mailman, mp>>
    /\ pc = "idle"
    /\ Len(alarms) + Len(inbox[ClockId]) + Len(outbox[ClockId]) < MaxAlarms
    /\ Cardinality(DOMAIN wake_log) < MaxAlarms
    /\ LET msg == AlarmMessage(uuid_counter + 1, a, t,
                               AgentMessage(uuid_counter, a, a, DefaultTopic))
       IN /\ inbox' = [inbox EXCEPT ![ClockId] = Append(@, msg)]
          /\ wake_log' = AlarmsSet(wake_log, <<msg>>)
    /\ uuid_counter' = uuid_counter + 2
    /\ UNCHANGED <<agents, is_setup, keep_awake, outbox, sched_time, mail_queue,
                   mailing_lists, needs_update, has_keep_awake, pause, pause_if_idle,
                   iterations_to_halt, message_count, alarms, clock_time,
                   clock_paused, pc, todo, err, log, run_info, clock_speed>>

\* scheduler.send_and_receive(clock): the outbox of the clock goes to the
\* mail queue
ClockSends ==
    /\ UNCHANGED <<hook, returned, subscription_calls, alarm_book, cleared, clock1, clock2, mailman, mp, clock_speed, wake_log>>
    /\ pc = "idle"
    /\ outbox[ClockId] # <<>>
    /\ mail_queue' = mail_queue \o outbox[ClockId]
    /\ outbox' = [outbox EXCEPT ![ClockId] = <<>>]
    /\ UNCHANGED <<agents, is_setup, keep_awake, inbox, sched_time,
                   mailing_lists, needs_update, has_keep_awake, pause, pause_if_idle,
                   iterations_to_halt, message_count, alarms, clock_time,
                   clock_paused, uuid_counter, pc, todo, err, log, run_info>>

\* clock.update(): resume, tick, read the inbox, check the alarm clock
ClockStep ==
    /\ UNCHANGED <<returned, subscription_calls, alarm_book, cleared, clock1, clock2, mailman, mp>>
    /\ pc = "idle"
    /\ LET cu == ClockUpdate(inbox[ClockId]) IN
       /\ alarms' = cu[1]
       /\ outbox' = [outbox EXCEPT ![ClockId] = @ \o cu[2]]
    /\ inbox' = [inbox EXCEPT ![ClockId] = <<>>]
    /\ clock_paused' = FALSE
    /\ hook' = [hook EXCEPT ![ClockId] = "update"]
    /\ UNCHANGED <<agents, is_setup, keep_awake, sched_time, mail_queue,
                   mailing_lists, needs_update, has_keep_awake, pause, pause_if_idle,
                   iterations_to_halt, message_count, clock_time, uuid_counter,
                   pc, todo, err, log, run_info, clock_speed, wake_log>>

\* the time that a real-time clock reads from the host (Clock.time) passes
\* while the clock is not paused
TimePasses ==
    /\ UNCHANGED <<hook, returned, subscription_calls, alarm_book, cleared, clock1, clock2, mailman, mp>>
    /\ pc = "idle"
    /\ clock_speed # None
    /\ ~clock_paused
    /\ clock_time < MaxTime
    /\ clock_time' = clock_time + 1
    /\ UNCHANGED <<agents, is_setup, keep_awake, inbox, outbox, sched_time, mail_queue,
                   mailing_lists, needs_update, has_keep_awake, pause, pause_if_idle,
                   iterations_to_halt, message_count, alarms, clock_paused,
                   uuid_counter, pc, todo, err, log, run_info, clock_speed, wake_log>>

\* clock.advance_time_to_next_timed_event() on a simulation clock, as
\* advance_clock_if_agents_are_idle calls it
ClockAdvance ==
    /\ UNCHANGED <<hook, returned, subscription_calls, alarm_book, cleared, clock1, clock2, mailman, mp>>
    /\ pc = "idle"
    /\ clock_speed = None
    /\ ClockIsWaiting(alarms, inbox[ClockId])
    /\ clock_time' = AdvanceTime(alarms, clock_time)
    /\ UNCHANGED <<agents, is_setup, keep_awake, inbox, outbox, sched_time, mail_queue,
                   mailing_lists, needs_update, has_keep_awake, pause, pause_if_idle,
                   iterations_to_halt, message_count, alarms, clock_paused,
                   uuid_counter, pc, todo, err, log, run_info, clock_speed, wake_log>>

\* ------------------------------------------- a simulation clock with tick
\* TestSimulationClock1.tick(limit): the time after the tick; alarm_time[0]
\* is the earliest wake-up time
TickTime(mq, nu, alarm_time, time, limit) ==
    IF mq # <<>> THEN time
    ELSE IF nu # {} THEN time
    ELSE IF alarm_time # <<>>
         THEN IF NotLimit(limit) THEN Head(alarm_time).wake
              ELSE Min(Head(alarm_time).wake, limit)
         ELSE time

\* clock.tick(limit) on a simulation clock
Tick(limit) ==
    /\ UNCHANGED <<hook, returned, subscription_calls, alarm_book, cleared, clock1, clock2, mailman, mp>>
    /\ pc = "idle"
    /\ clock_speed = None
    /\ clock_time' = TickTime(mail_queue, needs_update, alarms, clock_time, limit)
    /\ UNCHANGED <<agents, is_setup, keep_awake, inbox, outbox, sched_time, mail_queue,
                   mailing_lists, needs_update, has_keep_awake, pause, pause_if_idle,
                   iterations_to_halt, message_count, alarms, clock_paused,
                   uuid_counter, pc, todo, err, log, run_info, clock_speed, wake_log>>

\* ------------------------------------ the two clocks under the same calls
\* what the calls on the clocks of the benchmark and on the MailMan leave
\* alone
kernel == <<agents, is_setup, keep_awake, inbox, outbox, sched_time, mail_queue,
            mailing_lists, needs_update, has_keep_awake, pause, pause_if_idle,
            iterations_to_halt, message_count, alarms, clock_time, clock_paused,
            pc, todo, err, log, run_info, clock_speed, wake_log, hook,
            returned, subscription_calls, alarm_book, cleared>>

\* the delays an alarm is set with: negative, zero and positive
Delays == (0 - 1)..MaxTime

\* set_alarm(delay, message, ignore_alarm_if_idle) on both clocks
BothSetAlarm(delay, receiver, topic, ignore_alarm_if_idle) ==
    /\ uuid_counter <= MaxUuid
    /\ LET msg == AgentMessage(uuid_counter, receiver, receiver, topic)
       IN /\ clock1' = TestSetAlarm(clock1, HeapClock, delay, msg, ignore_alarm_if_idle)
          /\ clock2' = TestSetAlarm(clock2, DequeClock, delay, msg, ignore_alarm_if_idle)
    /\ uuid_counter' = uuid_counter + 1
    /\ UNCHANGED <<kernel, mailman, mp>>

\* release_alarm_messages() on both clocks
BothRelease ==
    /\ clock1' = TestReleaseAlarmMessages(clock1, HeapClock)
    /\ clock2' = TestReleaseAlarmMessages(clock2, DequeClock)
    /\ UNCHANGED <<kernel, uuid_counter, mailman, mp>>

\* tick(limit) on both clocks, the schedulers having the same agents to update
BothTick(nu, limit) ==
    /\ clock1' = TestTick(clock1, nu, limit)
    /\ clock2' = TestTick(clock2, nu, limit)
    /\ UNCHANGED <<kernel, uuid_counter, mailman, mp>>

\* clear_alarms(receiver, topic) on both clocks
BothClearAlarms(receiver, topic) ==
    /\ clock1' = TestClearAlarms(clock1, HeapClock, receiver, topic)
    /\ clock2' = TestClearAlarms(clock2, DequeClock, receiver, topic)
    /\ UNCHANGED <<kernel, uuid_counter, mailman, mp>>

\* the schedulers process their mail queues, which are empty afterwards
BothProcessMailQueue ==
    /\ clock1.mail_queue # <<>> \/ clock2.mail_queue # <<>>
    /\ clock1' = [clock1 EXCEPT !.mail_queue = <<>>]
    /\ clock2' = [clock2 EXCEPT !.mail_queue = <<>>]
    /\ UNCHANGED <<kernel, uuid_counter, mailman, mp>>

\* ------------------------------------------------ the MailMan on its own
\* the caller puts a message for a receiver in the MailMan's inbox
MailManPost(receiver, topic, tolerated) ==
    /\ mailman.posted < MaxPosted
    /\ mailman' = [mailman EXCEPT
                     !.posted = @ + 1,
                     !.inbox = Append(@, MailManMessage(mailman.posted + 1, receiver,
                                                        topic, tolerated))]
    /\ UNCHANGED <<kernel, uuid_counter, clock1, clock2, mp>>

\* mailman.add(agent)
MailManAdds(a) ==
    /\ a \notin mailman.agent_register
    /\ mailman' = MailManAdd(mailman, a)
    /\ UNCHANGED <<kernel, uuid_counter, clock1, clock2, mp>>

\* mailman.update()
MailManUpdates ==
    /\ mailman.updates < MaxUpdates
    /\ mailman' = MailManUpdate([mailman EXCEPT !.inbox = <<>>, !.updates = @ + 1],
                                mailman.inbox)
    /\ UNCHANGED <<kernel, uuid_counter, clock1, clock2, mp>>

\* ------------------------------------------------ the partitions at work
rest == <<kernel, uuid_counter, clock1, clock2, mailman>>

\* Agent.update, new_message, send: an agent of a partition appends a ChainMsg
\* to the mail queue of its scheduler, which is in update_agents
PartitionSend(s, r) ==
    /\ mp.posted < MaxChain
    /\ mp.at[MainAgents[s]] = "update"
    /\ mp' = [mp EXCEPT
                !.mail_queue[MainAgents[s]] = Append(@, ChainMsg(mp.posted + 1, s, r)),
                !.posted = @ + 1]
    /\ UNCHANGED rest

\* MPScheduler.process_inter_proc_mail, one get_nowait that returns a ChainMsg:
\* self.mail_queue.append(msg)
PartitionGet(p) ==
    /\ mp.at[p] = "inter"
    /\ mp.to_proc[p] # <<>>
    /\ mp' = [mp EXCEPT !.to_proc[p] = Tail(@),
                        !.mail_queue[p] = Append(@, Head(mp.to_proc[p]))]
    /\ UNCHANGED rest

\* MPScheduler.process_inter_proc_mail, get_nowait raises queue.Empty (the queue
\* is empty, or what was put on it has not reached the pipe yet): return; run
\* goes on with process_mail_queue and its copy of the mail queue
PartitionEmpty(p) ==
    /\ mp.at[p] = "inter"
    /\ mp' = [mp EXCEPT !.at[p] = "mail", !.pos[p] = 0]
    /\ UNCHANGED rest

\* MPScheduler.process_mail_queue, one message of the loop: to the inbox of a
\* local receiver, or else to MPmain
PartitionDeliver(p) ==
    /\ mp.at[p] = "mail"
    /\ mp.pos[p] < Len(mp.mail_queue[p])
    /\ LET msg == mp.mail_queue[p][mp.pos[p] + 1] IN
       mp' = IF msg.r \in PartitionAgents(p)
             THEN [mp EXCEPT !.inbox[msg.r] = Append(@, msg), !.pos[p] = @ + 1]
             ELSE [mp EXCEPT !.to_mp[p] = QueuePut(@, msg), !.pos[p] = @ + 1]
    /\ UNCHANGED rest

\* MPScheduler.process_mail_queue, after the loop: self.mail_queue.clear(); run
\* goes on with update_agents
PartitionClear(p) ==
    /\ mp.at[p] = "mail"
    /\ mp.pos[p] = Len(mp.mail_queue[p])
    /\ mp' = [mp EXCEPT !.mail_queue[p] = <<>>, !.at[p] = "update", !.pos[p] = 0]
    /\ UNCHANGED rest

\* MPScheduler.update_agents has returned; run starts over with
\* process_inter_proc_mail
PartitionUpdated(p) ==
    /\ mp.at[p] = "update"
    /\ mp' = [mp EXCEPT !.at[p] = "inter"]
    /\ UNCHANGED rest

\* MPmain.process_mail_queue: for name, link in self.schedulers.items():
\* for _ in range(link.to_mp.qsize())
MainEnters ==
    /\ mp.main_at = "for"
    /\ mp' = [mp EXCEPT !.main_at = "range",
                        !.link = PartitionOrder[mp.outer],
                        !.left = Len(mp.to_mp[PartitionOrder[mp.outer]])]
    /\ UNCHANGED rest

\* MPmain.process_mail_queue, one get_nowait that returns a ChainMsg: the message
\* is put on the to_proc of the partition of its receiver. In
\* test_multi_processing.py the name link is bound to that Link from here on
\* (rebinds); in test_multi_processing_advanced.py it is _link that is bound.
MainForwards(rebinds) ==
    /\ mp.main_at = "range"
    /\ mp.left > 0
    /\ mp.to_mp[mp.link] # <<>>
    /\ LET msg == Head(mp.to_mp[mp.link])
           target == MainAgents[msg.r]
           Q == [mp EXCEPT !.to_mp[mp.link] = Tail(@)] IN
       mp' = [Q EXCEPT !.to_proc[target] =
                           QueuePut(@, [msg EXCEPT !.forwarded = @ + 1]),
                       !.link = IF rebinds THEN target ELSE @,
                       !.left = @ - 1]
    /\ UNCHANGED rest

\* get_nowait raises queue.Empty in MPmain and the link is alive: break
MainBreaks ==
    /\ mp.main_at = "range"
    /\ mp.left > 0
    /\ mp' = MainNextLink(mp)
    /\ UNCHANGED rest

\* the range of the inner loop is exhausted
MainLeaves ==
    /\ mp.main_at = "range"
    /\ mp.left = 0
    /\ mp' = MainNextLink(mp)
    /\ UNCHANGED rest

\* ------------------------------------------------------------ specification
NoCall == Call("none", None, None, 0, FALSE)

\* the agent of the scheduler runs of Spec and SpecIter
RunAgent == "1"

\* the calls an agent makes in the scheduler runs
Calls(a) ==
    {NoCall, Call("pause", None, None, 0, FALSE),
     Call("awake", None, None, 0, FALSE), Call("sleep", None, None, 0, FALSE),
     Call("send", a, UserTopic, 0, FALSE)}
    \cup {Call("alarm", None, None, t, r) : t \in 0..MaxTime, r \in BOOLEAN}

CallsOf(a) == IF a \in UserAgents THEN Calls(a) ELSE {NoCall}

\* the steps of Scheduler.run after the call
RunSteps ==
    \/ IterStart
    \/ \E a \in Ids : \E c \in CallsOf(a) : UpdateAgent(a, TRUE, c)
    \/ SetupFinish
    \/ IterFinish

\* Spec: a scheduler with one agent, and runs for a time or until idle
Next ==
    \/ EnvAdd(RunAgent)
    \/ \E c \in Calls(RunAgent) : EnvCall(RunAgent, c)
    \/ \E seconds \in -1..MaxTime, idle \in {"True", "False"} :
          RunCall(seconds, NoIterations, idle)
    \/ RunSteps

Spec == Init /\ [][Next]_vars

\* the calls made on an agent before it is added to the scheduler
LoneCalls(a) == {Call("send", a, UserTopic, 0, FALSE), Call("subscribe", UserTopic, None, 0, FALSE)}

\* SpecLone: an agent sends and subscribes before it is added to the
\* scheduler, and the scheduler runs
NextLone ==
    \/ EnvAdd(RunAgent)
    \/ \E c \in LoneCalls(RunAgent) : SendUnregistered(RunAgent, c)
    \/ \E iterations \in 0..MaxIter : RunCall(-1, iterations, "True")
    \/ IterStart
    \/ \E a \in Ids : UpdateAgent(a, TRUE, NoCall)
    \/ SetupFinish
    \/ IterFinish

SpecLone == Init /\ [][NextLone]_vars

\* SpecIter: a scheduler with one agent, and runs for a number of iterations
NextIter ==
    \/ EnvAdd(RunAgent)
    \/ \E c \in Calls(RunAgent) : EnvCall(RunAgent, c)
    \/ \E iterations \in 0..MaxIter, idle \in {"True", "False"} :
          RunCall(-1, iterations, idle)
    \/ RunSteps

SpecIter == Init /\ [][NextIter]_vars

\* SpecUntil: a scheduler with one agent that sets alarms between the runs,
\* and runs for a time as well as runs for a number of iterations
NextUntil ==
    \/ EnvAdd(RunAgent)
    \/ \E t \in 0..MaxTime : EnvAlarm(RunAgent, t)
    \/ \E seconds \in 0..MaxTime : RunCall(seconds, NoIterations, "True")
    \/ \E iterations \in 0..MaxIter : RunCall(-1, iterations, "True")
    \/ IterStart
    \/ \E a \in Ids : UpdateAgent(a, TRUE, NoCall)
    \/ SetupFinish
    \/ IterFinish

SpecUntil == Init /\ [][NextUntil]_vars

\* SpecResume: the caller adds and removes agents between runs that end by
\* idleness; the agents only read their mail
NextResume ==
    \/ \E a \in UserAgents : EnvAdd(a)
    \/ \E a \in UserAgents, by_uuid \in BOOLEAN : EnvRemove(a, by_uuid)
    \/ RunCall(-1, NoIterations, "True")
    \/ IterStart
    \/ \E a \in Ids : UpdateAgent(a, TRUE, NoCall)
    \/ SetupFinish
    \/ IterFinish

SpecResume == Init /\ [][NextResume]_vars

\* SpecGone: an agent sets alarms and is then removed, by the caller between
\* two runs or by a RemoveAgent message it has sent to the scheduler
NextGone ==
    \/ EnvAdd(RunAgent)
    \/ \E t \in 0..MaxTime : EnvAlarm(RunAgent, t)
    \/ EnvRemove(RunAgent, FALSE)
    \/ EnvCall(RunAgent, Call("remove", RunAgent, None, 0, FALSE))
    \/ \E iterations \in {NoIterations} \cup 0..MaxIter : RunCall(-1, iterations, "True")
    \/ IterStart
    \/ \E a \in Ids : UpdateAgent(a, TRUE, NoCall)
    \/ SetupFinish
    \/ IterFinish

SpecGone == Init /\ [][NextGone]_vars

\* the calls of an agent that adds and removes agents by messages
InsideCalls(a) ==
    {NoCall, Call("awake", None, None, 0, FALSE)}
    \cup {Call("add", x, None, 0, FALSE) : x \in UserAgents \ {a}}
    \cup {Call("remove", x, None, 0, FALSE) : x \in UserAgents}

\* SpecInside: an agent that adds another agent and removes it and itself
\* from within its updates, by AddNewAgent and RemoveAgent messages and by
\* calling scheduler.remove, and that asks to be kept awake; the other agent
\* only reads its mail
NextInside ==
    \/ EnvAdd(RunAgent)
    \/ RunCall(-1, NoIterations, "True")
    \/ IterStart
    \/ \E a \in Ids : \E c \in (IF a = RunAgent THEN InsideCalls(a) ELSE {NoCall}) :
           UpdateAgent(a, TRUE, c)
    \/ \E x \in UserAgents : UpdateRemoves(RunAgent, x)
    \/ SetupFinish
    \/ IterFinish

SpecInside == Init /\ [][NextInside]_vars

\* SpecBudget: runs that are given seconds and an iteration cap at once,
\* and runs that are given neither or the cap only; the agent only reads
\* its mail, sets no alarm and asks for no pause
NextBudget ==
    \/ EnvAdd(RunAgent)
    \/ \E seconds \in 0..MaxTime, iterations \in 0..MaxIter :
           RunCall(seconds, iterations, "True")
    \/ \E iterations \in {NoIterations} \cup 0..MaxIter : RunCall(-1, iterations, "True")
    \/ IterStart
    \/ \E a \in Ids : UpdateAgent(a, TRUE, NoCall)
    \/ SetupFinish
    \/ IterFinish

SpecBudget == Init /\ [][NextBudget]_vars

\* the receivers of the messages of SpecMail
Receivers == UserAgents \cup {None}

\* SpecMail: the caller adds and removes agents, and has the scheduler handle
\* subscriptions and process its mail queue, between two runs
NextMail ==
    \/ \E a \in UserAgents : EnvAdd(a)
    \/ \E a \in UserAgents, by_uuid \in BOOLEAN : EnvRemove(a, by_uuid)
    \/ \E a \in UserAgents : Subscribe(a, UserTopic)
    \/ \E a \in UserAgents, k \in {UserTopic, None} : Unsubscribe(a, k)
    \/ \E receiver \in Receivers : Post("1", receiver, UserTopic)
    \/ ProcessMail
    \/ \E a \in UserAgents : Receive(a)

SpecMail == Init /\ [][NextMail]_vars

\* SpecOrder: messages queue up in the mail queue and in the inboxes of two
\* agents, which take them one at a time
NextOrder ==
    \/ \E a \in UserAgents : EnvAdd(a)
    \/ \E a \in UserAgents : Subscribe(a, UserTopic)
    \/ \E receiver \in Receivers : Enqueue("1", receiver, UserTopic)
    \/ ProcessMail
    \/ \E a \in UserAgents : ReceiveOne(a)

SpecOrder == Init /\ [][NextOrder]_vars

\* SpecSub: two agents are given and take back their subscription to a
\* topic, and one message with that topic is delivered
NextSub ==
    \/ \E a \in UserAgents : EnvAdd(a)
    \/ \E a \in UserAgents : SubscriptionCall("subscribe", a, UserTopic)
    \/ \E a \in UserAgents, k \in {UserTopic, None} : SubscriptionCall("unsubscribe", a, k)
    \/ Post("1", None, UserTopic)
    \/ ProcessMail

SpecSub == Init /\ [][NextSub]_vars

\* the topics of the alarm messages
AlarmTopics == {UserTopic, DefaultTopic}

\* SpecClear: two agents set alarms for themselves and for each other and
\* clear alarms by receiver and topic
NextClear ==
    \/ \E a \in UserAgents : EnvAdd(a)
    \/ \E a \in UserAgents, receiver \in UserAgents, alarm_time \in 1..MaxTime,
          topic \in AlarmTopics : SetAlarm(a, receiver, alarm_time, topic)
    \/ \E a \in UserAgents, receiver \in UserAgents \cup {None},
          topic \in AlarmTopics \cup {None} : AgentClearAlarms(a, receiver, topic)
    \/ ClearAllAlarms

SpecClear == Init /\ [][NextClear]_vars

\* SpecDirect: direct messages and messages by topic for two agents that
\* subscribe to the topic and to each other's uuid
NextDirect ==
    \/ \E a \in UserAgents : EnvAdd(a)
    \/ \E a \in UserAgents : \E k \in (UserAgents \ {a}) \cup {UserTopic} : Subscribe(a, k)
    \/ \E receiver \in UserAgents : EnqueueDirect("1", receiver, UserTopic)
    \/ Enqueue("1", None, UserTopic)
    \/ \E incoming \in InterProcMail(uuid_counter) : ProcessMailDirect(incoming)

SpecDirect == Init /\ [][NextDirect]_vars

\* SpecJunk: messages and entries that are no messages queue up in the mail
\* queue of a scheduler with two agents
NextJunk ==
    \/ \E a \in UserAgents : EnvAdd(a)
    \/ \E receiver \in Receivers : Enqueue("1", receiver, UserTopic)
    \/ EnqueueJunk
    \/ ProcessMail

SpecJunk == Init /\ [][NextJunk]_vars

\* SpecClock: a clock of either kind, its alarms and its updates
NextClock ==
    \/ \E t \in 0..MaxTime : ClockGetsAlarm(RunAgent, t)
    \/ ClockStep
    \/ TimePasses
    \/ ClockAdvance

SpecClock == InitClock /\ [][NextClock]_vars

\* SpecAlarm: a clock of either kind, an agent that sets alarms for itself,
\* and the delivery of the wake-up messages to its inbox
NextAlarm ==
    \/ EnvAdd(RunAgent)
    \/ \E t \in 0..MaxTime : ClockGetsAlarm(RunAgent, t)
    \/ ClockStep
    \/ TimePasses
    \/ ClockAdvance
    \/ ClockSends
    \/ ProcessMail

SpecAlarm == InitClock /\ [][NextAlarm]_vars

\* SpecTick: a simulation clock that is sent alarms and ticked with and
\* without a limit, while the scheduler has mail, or agents to update, or
\* neither
Limits == {NoLimit} \cup 0..MaxTime

NextTick ==
    \/ EnvAdd(RunAgent)
    \/ Post(RunAgent, RunAgent, UserTopic)
    \/ ProcessMail
    \/ \E t \in 0..MaxTime : ClockGetsAlarm(RunAgent, t)
    \/ ClockStep
    \/ \E limit \in Limits : Tick(limit)

SpecTick == Init /\ [][NextTick]_vars

\* SpecBench: a heap clock and a deque clock of the benchmark that are given
\* the same calls: alarms with any delay for either agent, releases, ticks
\* with and without a limit, clearings, and the schedulers emptying their
\* mail queues
NextBench ==
    \/ \E delay \in Delays, receiver \in UserAgents, topic \in AlarmTopics :
           BothSetAlarm(delay, receiver, topic, receiver = "1")
    \/ BothRelease
    \/ \E nu \in {{}, {RunAgent}}, limit \in Limits : BothTick(nu, limit)
    \/ \E receiver \in UserAgents \cup {None}, topic \in {UserTopic, None} :
           BothClearAlarms(receiver, topic)
    \/ BothProcessMailQueue

SpecBench == Init /\ [][NextBench]_vars

\* SpecMailMan: a MailMan on its own, as in basic_tests.test03: messages
\* with any tolerated number of delivery attempts are put in its inbox for
\* receivers that are registered, or registered later, or never
NextMailMan ==
    \/ \E receiver \in UserAgents, tolerated \in 0..MaxTolerated :
           MailManPost(receiver, UserTopic, tolerated)
    \/ \E a \in UserAgents : MailManAdds(a)
    \/ MailManUpdates

SpecMailMan == Init /\ [][NextMailMan]_vars

\* SpecPartition: two partitions and MPmain, every process at its own pace;
\* the agents send ChainMsgs to agents of their own and of the other
\* partition, and no Stop is put on any queue
NextPartition ==
    \/ \E s \in MPAgents, r \in MPAgents : PartitionSend(s, r)
    \/ \E p \in Partitions : PartitionGet(p)
    \/ \E p \in Partitions : PartitionEmpty(p)
    \/ \E p \in Partitions : PartitionDeliver(p)
    \/ \E p \in Partitions : PartitionClear(p)
    \/ \E p \in Partitions : PartitionUpdated(p)
    \/ MainEnters
    \/ \E rebinds \in BOOLEAN : MainForwards(rebinds)
    \/ MainBreaks
    \/ MainLeaves

SpecPartition == Init /\ [][NextPartition]_vars

\* ------------------------------------------------------------------ routing
\* the agents whose inbox log entry e appended to
GotUuids(e) == {e.got[i][1] : i \in DOMAIN e.got}

\* no agent's inbox was appended to twice for log entry e
GotOnce(e) == \A i, j \in DOMAIN e.got : e.got[i][1] = e.got[j][1] => i = j

\* the objects log entry e appended to the inbox of agent a
GotOids(e, a) == {e.got[i][2] : i \in {j \in DOMAIN e.got : e.got[j][1] = a}}

\* agent a holds a subscription that matches msg: a key of the mailing
\* lists that is the receiver or the topic of msg
Subscribed(a, msg) ==
    \E k \in DOMAIN mailing_lists :
        a \in mailing_lists[k] /\ (k = msg.receiver \/ k = msg.topic)

\* the scheduler and its registered agents
Registered == agents \cup {SchedulerId}

\* C1: every message taken from the mail queue is appended to the inboxes of
\* exactly its receiver, when registered, and the registered subscribers
\* holding a matching subscription, once each
C1_RecipientSet ==
    \A i \in DOMAIN log :
        /\ GotUuids(log[i]) =
               ({log[i].m.receiver} \cap Registered)
               \cup {a \in Registered : Subscribed(a, log[i].m)}
        /\ GotOnce(log[i])

\* C1, as far as the code goes: every message taken from the mail queue is
\* appended once to the inbox of each subscriber of its receiver or its topic,
\* and to no other inbox, when all those subscribers are registered
C1_SubscriberSet ==
    \A i \in DOMAIN log :
        Recipients(mailing_lists, log[i].m) \subseteq Registered =>
            /\ GotUuids(log[i]) = {a \in Registered : Subscribed(a, log[i].m)}
            /\ GotOnce(log[i])

\* a message to a registered agent that is not subscribed to its own uuid
\* was taken from the mail queue
C1_Witness ==
    \E i \in DOMAIN log :
        /\ log[i].m.receiver \in agents
        /\ ~Subscribed(log[i].m.receiver, log[i].m)

C3_SameInstance ==
    \A i \in DOMAIN log :
        (Cardinality(log[i].rcpt) = 1 /\ log[i].rcpt \subseteq Registered) =>
            \A a \in log[i].rcpt :
                /\ log[i].got = <<(<<a, log[i].m.oid>>)>>
                /\ inbox[a] # <<>>
                /\ inbox[a][Len(inbox[a])] = log[i].m

\* a message was appended to the inbox of its only recipient
C3_Witness ==
    \E i \in DOMAIN log :
        /\ Cardinality(log[i].rcpt) = 1
        /\ Len(log[i].got) = 1
        /\ log[i].got[1][1] \in log[i].rcpt

\* C4: a message whose receiver is the uuid of a registered agent is
\* appended to that agent's inbox when the mail queue is processed
C4_ReceiverGets ==
    \A i \in DOMAIN log :
        log[i].m.receiver \in agents => log[i].m.receiver \in GotUuids(log[i])

\* ------------------------------------------------------------ runs and alarms
HasTopic(q, topic) == \E i \in DOMAIN q : q[i].topic = topic

\* an alarm is pending: held by the clock or on its way to it
PendingAlarm ==
    \/ alarms # <<>>
    \/ HasTopic(mail_queue, AlarmTopic)
    \/ \E a \in Ids : HasTopic(outbox[a], AlarmTopic)
    \/ HasTopic(inbox[ClockId], AlarmTopic)

\* the latest wake-up time of the alarms set so far
LatestWake ==
    CHOOSE t \in {wake_log[u].wake : u \in DOMAIN wake_log} :
        \A u \in DOMAIN wake_log : wake_log[u].wake <= t

\* C5: when a run with pause_if_idle pauses on idleness, no alarm is pending
\* any more, the wake-up message of every alarm set has been appended to its
\* receiver's inbox exactly once, and the clock time is the latest wake-up time
C5_IdleExitAfterAlarms ==
    run_info.exit = "idle" =>
        /\ pause_if_idle
        /\ ~PendingAlarm
        /\ \A u \in DOMAIN wake_log : wake_log[u].n = 1
        /\ DOMAIN wake_log # {} => clock_time = LatestWake

\* a run has paused on idleness after it advanced the clock to an alarm and
\* delivered it
C5_Witness ==
    /\ run_info.exit = "idle"
    /\ pc = "idle"
    /\ \E u \in DOMAIN wake_log :
          wake_log[u].wake > 0 /\ wake_log[u].n = 1 /\ clock_time = wake_log[u].wake

\* the scheduler is idle in a run with pause_if_idle: no mail, no agent to
\* update or to keep awake, no alarm
Quiet ==
    /\ pause_if_idle
    /\ mail_queue = <<>>
    /\ needs_update = {}
    /\ has_keep_awake = {}
    /\ ~PendingAlarm
    /\ \A a \in Ids : inbox[a] = <<>> /\ outbox[a] = <<>>

\* an iteration that begins idle has no agent to update and stays idle
QuietIterStart ==
    (pc = "loop" /\ ~pause /\ Quiet /\ pc' # pc) =>
        (pc' = "agents" /\ todo' = {} /\ Quiet')

\* an iteration that was idle ends idle and counts no message
QuietIterFinish ==
    (pc = "agents" /\ todo = {} /\ Quiet /\ pc' # pc) =>
        (pc' = "loop" /\ Quiet' /\ message_count' = AppendMax3(message_count, 0))

\* an iteration that ends idle with no message counted in message_count pauses
QuietPauses ==
    (pc = "agents" /\ pc' = "loop" /\ Quiet' /\ SeqSum(message_count') = 0) => pause'

\* the paused scheduler returns, with an empty mail queue and needs_update
QuietReturns ==
    (pc = "loop" /\ pause /\ Quiet /\ pc' # pc) =>
        (pc' = "idle" /\ mail_queue' = <<>> /\ needs_update' = {})

\* C6: a run with pause_if_idle returns once the scheduler is idle, within
\* the three iterations that message_count remembers (every idle iteration
\* counts 0, and an idle iteration that leaves only zeros pauses the
\* scheduler, which then returns), and when it has returned on idleness the
\* mail queue and needs_update are empty
C6_IdleTerminates ==
    /\ [](run_info.exit = "idle" => mail_queue = <<>> /\ needs_update = {})
    /\ [][QuietIterStart /\ QuietIterFinish /\ QuietPauses /\ QuietReturns]_vars

\* a run has returned on idleness
C6_Witness ==
    /\ run_info.exit = "idle"
    /\ pc = "idle"
    /\ pause
    /\ Len(message_count) = 3

\* ------------------------------------------------------- the release of alarms
\* the alarm messages the clock holds or has in its inbox
ClockPending ==
    {alarms[i] : i \in DOMAIN alarms}
    \cup {inbox[ClockId][i] : i \in {j \in DOMAIN inbox[ClockId] :
                                        inbox[ClockId][j].topic = AlarmTopic}}

\* the messages a step appends to the outbox of the clock
ClockSent == SubSeq(outbox'[ClockId], Len(outbox[ClockId]) + 1, Len(outbox'[ClockId]))

\* a step releases, once each, exactly the pending alarms with a wake-up
\* time up to now, and takes them, and no other, off the alarms
ReleasesUpTo(now) ==
    /\ \A al \in ClockPending :
          /\ al.wake <= now <=>
                \E i \in DOMAIN ClockSent : ClockSent[i] = WakeUpMessage(al)
          /\ al.wake <= now <=> \A i \in DOMAIN alarms' : alarms'[i] # al
    /\ Len(ClockSent) = Cardinality({al \in ClockPending : al.wake <= now})
    /\ \A i \in DOMAIN alarms' : alarms'[i] \in ClockPending

\* no wake-up message has been sent twice, or is still held as an alarm
ReleasedOnce ==
    /\ \A i, j \in DOMAIN outbox[ClockId] :
          outbox[ClockId][i].uuid = outbox[ClockId][j].uuid => i = j
    /\ \A i \in DOMAIN alarms, j \in DOMAIN outbox[ClockId] :
          alarms[i].inner.uuid # outbox[ClockId][j].uuid

NothingToDo == mail_queue = <<>> /\ needs_update = {}

\* a tick with a limit moves the time to the smaller of the earliest pending
\* wake-up time and the limit, a tick without one to the earliest pending
\* wake-up time
TicksToMin ==
    \A limit \in Limits :
        (Tick(limit) /\ NothingToDo /\ alarms # <<>>) =>
            clock_time' = IF limit = NoLimit THEN Head(alarms).wake
                          ELSE Min(Head(alarms).wake, limit)

\* C8: the time of a simulation clock changes only when the mail queue is
\* empty and no agent needs an update; a tick taken then moves the time to
\* min(earliest pending wake-up time, limit), whatever the limit, 0 and the
\* current time included, and any other tick leaves the time as it is
C8_TickToMin ==
    /\ [][clock_time' # clock_time => NothingToDo]_vars
    /\ [][TicksToMin]_vars
    /\ [][\A limit \in Limits : (Tick(limit) /\ ~NothingToDo) =>
                                      clock_time' = clock_time]_vars

\* ------------------------------------------------------- runs for a time
\* run(seconds=s) has returned without an error
RunForReturned ==
    /\ pc = "idle"
    /\ err = "none"
    /\ run_info.deadline >= 0
    /\ run_info.exit # ""

\* C9: when run(seconds=s), called at clock time t0, has returned on the
\* PauseMessage that it set its alarm for, and the clock still holds an alarm for t0 + s or later, the clock time is t0 + s
\* and no alarm for a later time has been delivered; the time does not
\* change between two runs, so that the next run starts where the last ended
C9_RunForSeconds ==
    /\ [](RunForReturned /\ wake_log[run_info.alarm].n >= 1 =>
            /\ (\E i \in DOMAIN alarms : alarms[i].wake >= run_info.deadline)
                  => clock_time = run_info.deadline
            /\ \A u \in DOMAIN wake_log :
                  wake_log[u].wake > run_info.deadline => wake_log[u].n = 0)
    /\ [][pc = "idle" => clock_time' = clock_time]_vars

\* ------------------------------------------------- runs for N iterations
\* C10: during run(iterations=N) no agent is updated more than N times
\* (run_info.budget[a] is N less the updates of agent a since the call), so
\* that with N = 0 no agent is updated at all, on a first run as on a later
C10_AtMostN == \A a \in UserAgents : run_info.budget[a] >= 0

\* a step of the main loop's update_all_agents that invokes agent a's update
AgentUpdated(a) == pc = "agents" /\ a \in todo /\ a \in agents /\ a \notin todo'

\* C11: when an agent requests pause (sends a PauseMessage) during its update
\* in iteration k, the updates of iteration k all run and the loop exits at
\* the end of iteration k: no agent's update is invoked in a later iteration
\* of that run call.
C11_NoUpdateAfterPause ==
    [][\A a \in UserAgents : run_info.asked = 2 => ~AgentUpdated(a)]_vars

\* C12: a scheduler whose run has returned (its clock has been set up by
\* that run) can be run again after any adds and removes made while it was
\* paused: the new run call does not raise.
C12_ResumeDoesNotRaise == hook[ClockId] # "none" => run_info.exit # "raised"

\* C13: Scheduler.add of an agent whose uuid is registered raises a
\* SchedulerException and changes nothing: the registry (so the agent that
\* was registered stays), the needs-update set, the keep-awake set and the
\* mailing lists are as before the call, and no hook is invoked.
C13_DuplicateAddRaises ==
    [][\A a \in UserAgents :
          a \in agents /\ EnvAdd(a) =>
             /\ err' = "SchedulerException"
             /\ UNCHANGED <<agents, needs_update, has_keep_awake, mailing_lists,
                            is_setup, hook, inbox, outbox, mail_queue>>]_vars

\* a registered agent that needed no update was added again, and add raised
C13_Witness ==
    /\ err = "SchedulerException"
    /\ run_info.exit = ""
    /\ "1" \in agents
    /\ "1" \notin needs_update

\* the topics agent b is subscribed to in the mailing lists ml
TopicsOf(ml, b) == {k \in DOMAIN ml : b \in ml[k]}

\* C14: after remove(agent) of a registered agent its teardown has been
\* called and its uuid is in none of the registry, the needs-update set, the
\* keep-awake set and the mailing lists; the registration and the
\* subscriptions of every other agent are as before.
C14_RemoveClearsAgent ==
    [][\A a \in UserAgents, by_uuid \in BOOLEAN :
          a \in agents /\ EnvRemove(a, by_uuid) =>
             /\ hook'[a] = "teardown"
             /\ a \notin agents' \cup needs_update' \cup has_keep_awake'
             /\ TopicsOf(mailing_lists', a) = {}
             /\ agents' = agents \ {a}
             /\ \A b \in Ids \ {a} :
                   TopicsOf(mailing_lists', b) = TopicsOf(mailing_lists, b)]_vars

\* agent "1" was removed while agent "2" was registered and subscribed to
\* the topic; "2" has stayed so
C14_Witness ==
    /\ hook["1"] = "teardown"
    /\ "1" \notin agents
    /\ "2" \in agents
    /\ TopicsOf(mailing_lists, "2") = {"2", AgentClass, UserTopic}
    /\ err = "none"

\* what a call of add or remove that does nothing leaves alone
RegistryUnchanged ==
    UNCHANGED <<agents, needs_update, has_keep_awake, mailing_lists, is_setup, hook,
                inbox, outbox, mail_queue>>

C16_LifecycleOrder ==
    [][\A a \in UserAgents :
          /\ a \notin agents /\ EnvAdd(a) => hook'[a] = "setup"
          /\ hook'[a] = "update" => hook[a] \in {"setup", "update"}
          /\ a \in agents /\ (\E by_uuid \in BOOLEAN : EnvRemove(a, by_uuid))
                => hook'[a] = "teardown"]_vars

\* the run call has returned to its caller
RunReturned == pc = "idle" /\ run_info.exit \in {"halt", "idle", "pause"}

\* the message with uuid u is in the inbox of a user agent
InInbox(u) ==
    \E a \in UserAgents : \E i \in DOMAIN inbox[a] : inbox[a][i].uuid = u

\* C17: a message an agent sends in iteration k is delivered at the end of
\* iteration k and its recipient is updated for it in iteration k+1; so a
\* message sent to an agent before run(iterations=1) is in its recipient's
\* inbox when that call returns.
C17_SentBeforeRunArrives ==
    RunReturned /\ run_info.iterations = 1 =>
        \A u \in run_info.posted : InInbox(u)

\* the uuids of a sequence of messages
Uuids(box) == [i \in DOMAIN box |-> box[i].uuid]

\* a sequence of numbers that increases strictly
Increasing(q) == \A i, j \in DOMAIN q : i < j => q[i] < q[j]

\* the messages of box that the mailing lists ml send to agent a
RECURSIVE MailFor(_, _, _)
MailFor(box, ml, a) ==
    IF box = <<>> THEN <<>>
    ELSE (IF a \in Recipients(ml, Head(box)) THEN <<Head(box).uuid>> ELSE <<>>)
            \o MailFor(Tail(box), ml, a)

\* C18: for every recipient, process_mail_queue appends the messages to its
\* inbox in the order in which they were enqueued into the mail queue (the
\* order of their uuids), and receive() returns them in that order, oldest
\* first, and returns None when the inbox is empty.  (A delivery that raises
\* KeyError, for a subscriber that is not registered, is left aside.)
C18_InboxOrder ==
    /\ [](Increasing(Uuids(mail_queue)) /\
           \A a \in UserAgents : Increasing(Uuids(inbox[a])))
    /\ [][\A a \in UserAgents :
            /\ mail_queue # <<>> /\ ProcessMail /\ err' = "none" =>
                  Uuids(inbox'[a]) =
                      Uuids(inbox[a]) \o MailFor(mail_queue, mailing_lists, a)
            /\ ReceiveOne(a) =>
                  IF inbox[a] = <<>>
                  THEN returned' = NoMessage /\ inbox'[a] = <<>>
                  ELSE /\ \A i \in DOMAIN inbox[a] : returned'.uuid <= inbox[a][i].uuid
                       /\ Uuids(inbox'[a]) = Tail(Uuids(inbox[a]))]_vars

\* agent "2" has received the first message while the second and the third
\* were in its inbox behind it
C18_Witness ==
    /\ returned.uuid = 1
    /\ Uuids(inbox["2"]) = <<2, 3>>
    /\ inbox["1"] = <<>>

\* the wake-up time of the alarm that carried the wake-up message m
WakeOf(m) == wake_log[m.uuid].wake

\* C19: alarms are released in non-decreasing order of wake-up time (the
\* wake-up messages reach the inbox of their receiver in that order), and
\* alarms with equal wake-up times for one receiver reach its inbox in the
\* order in which they were set.
C19_ReleaseOrder ==
    \A i, j \in DOMAIN inbox[RunAgent] :
        i < j =>
           \/ WakeOf(inbox[RunAgent][i]) < WakeOf(inbox[RunAgent][j])
           \/ /\ WakeOf(inbox[RunAgent][i]) = WakeOf(inbox[RunAgent][j])
              /\ inbox[RunAgent][i].uuid < inbox[RunAgent][j].uuid

\* C19 as amended: every check of the alarm clock releases the alarms that
\* are due in non-decreasing order of wake-up time, those with equal wake-up
\* times in the order in which they were set, and leaves only alarms with
\* later wake-up times pending; wake-up messages of alarms with equal
\* wake-up times are in their receiver's inbox in the order in which the
\* alarms were set.
C19_ReleaseOrderOfPending ==
    /\ [](\A i, j \in DOMAIN inbox[RunAgent] :
            i < j /\ WakeOf(inbox[RunAgent][i]) = WakeOf(inbox[RunAgent][j])
               => inbox[RunAgent][i].uuid < inbox[RunAgent][j].uuid)
    /\ [][ClockStep =>
            /\ \A i, j \in DOMAIN ClockSent :
                  i < j =>
                     \/ WakeOf(ClockSent[i]) < WakeOf(ClockSent[j])
                     \/ /\ WakeOf(ClockSent[i]) = WakeOf(ClockSent[j])
                        /\ ClockSent[i].uuid < ClockSent[j].uuid
            /\ \A i \in DOMAIN ClockSent, k \in DOMAIN alarms' :
                  WakeOf(ClockSent[i]) < alarms'[k].wake]_vars

\* the wake-up messages of two alarms set for the same time are in the
\* agent's inbox
C19_Witness ==
    /\ Len(inbox[RunAgent]) = 2
    /\ WakeOf(inbox[RunAgent][1]) = WakeOf(inbox[RunAgent][2])

\* C20: an agent whose keep_awake flag is true is updated in every iteration
\* of the main loop, with an empty inbox too, and also when the flag was set
\* while the scheduler was paused between two runs: every iteration that
\* begins has each registered agent with the flag among the agents to update.
C20_KeepAwakeUpdated ==
    [][pc = "loop" /\ pc' = "agents" =>
          \A a \in UserAgents \cap agents : keep_awake[a] => a \in todo']_vars

\* C21: while a registered agent has its keep_awake flag set, a run with
\* pause_if_idle does not return because of idleness: when the idle test has
\* paused the run, no registered agent has the flag set.
C21_NoIdleExitWhileAwake ==
    run_info.exit = "idle" => \A a \in UserAgents \cap agents : ~keep_awake[a]

\* the agent has been removed after it had set an alarm
RemovedWithAlarm ==
    RunAgent \notin agents /\ hook[RunAgent] = "teardown" /\ wake_log # NoAlarms

\* C22: when an agent has been removed while an alarm addressed to it was
\* pending, no exception is raised: the run goes on normally, the alarm is
\* released and its wake-up message is dropped.
C22_RemovedAgentAlarm ==
    RemovedWithAlarm => run_info.exit # "raised" /\ err = "none"

\* C23: processing the mail queue never raises because a recipient found on
\* the mailing lists is not in the agent registry (the recipient is skipped).
C23_MissingRecipientSkipped == err # "KeyError"

\* the AgentMessages among the entries of a mail queue
RECURSIVE Messages(_)
Messages(q) ==
    IF q = <<>> THEN <<>>
    ELSE (IF IsAgentMessage(Head(q)) THEN <<Head(q)>> ELSE <<>>) \o Messages(Tail(q))

\* C24: process_mail_queue drops a mail-queue entry that is not a message
\* without raising, processes every other entry (each agent gets the
\* messages of the queue that are for it, in order) and leaves the mail
\* queue empty.
C24_JunkDropped ==
    [][mail_queue # <<>> /\ ProcessMail =>
          /\ err' = "none"
          /\ mail_queue' = <<>>
          /\ \A a \in UserAgents :
                Uuids(inbox'[a]) =
                    Uuids(inbox[a]) \o MailFor(Messages(mail_queue), mailing_lists, a)]_vars

\* a queue with an entry that is no message before a message has been
\* processed: the entry was dumped and the message after it delivered
C24_Witness ==
    /\ mail_queue = <<>>
    /\ \E i, j \in DOMAIN log :
          i < j /\ ~IsAgentMessage(log[i].m) /\ IsAgentMessage(log[j].m)
                /\ log[j].got # <<>>

\* C25: send and subscribe on an agent that is not registered with a
\* scheduler raise an assertion error and have no effect: no step puts a
\* message in the outbox of an agent that is not registered.
C25_UnregisteredSendRefused ==
    [][\A a \in UserAgents \ agents :
          /\ outbox'[a] = outbox[a]
          /\ \A c \in LoneCalls(a) : SendUnregistered(a, c) => err' = "AssertionError"]_vars

\* the number of appends of message m to the inbox of a in this step
NewIn(a, m) ==
    Cardinality({i \in DOMAIN inbox'[a] : i > Len(inbox[a]) /\ inbox'[a][i].uuid = m.uuid})

\* C26: a direct message is delivered to its receiver only: the delivery
\* appends it once to the inbox of its receiver if that is a local agent,
\* and to no other inbox, whatever the mailing lists hold; when the receiver
\* is not a local agent it is appended to no inbox.
C26_DirectToReceiverOnly ==
    [][\A incoming \in InterProcMail(uuid_counter) :
          ProcessMailDirect(incoming) =>
              /\ err' = "none"
              /\ \A i \in DOMAIN (mail_queue \o incoming) :
                    LET m == (mail_queue \o incoming)[i] IN
                    IsDirect(m) =>
                        \A a \in Ids :
                            NewIn(a, m) = IF a = m.receiver /\ a \in agents THEN 1 ELSE 0]_vars

\* a direct message has been delivered to its receiver while another agent
\* was on the mailing list of its topic, and one whose receiver is not a
\* local agent has been delivered to nobody
C26_Witness ==
    /\ \E i \in DOMAIN log :
          /\ IsDirect(log[i].m)
          /\ log[i].rcpt = {log[i].m.receiver}
          /\ log[i].m.topic \in DOMAIN mailing_lists
          /\ mailing_lists[log[i].m.topic] \ {log[i].m.receiver} # {}
    /\ \E i \in DOMAIN log :
          /\ IsDirect(log[i].m)
          /\ log[i].rcpt = {}
          /\ log[i].m.receiver \in DOMAIN mailing_lists

\* agent a holds subscription k in the mailing lists ml
Holds(ml, a, k) == k \in DOMAIN ml /\ a \in ml[k]

\* the call made last
LastCall == subscription_calls[Len(subscription_calls)]

\* C27: subscribing is idempotent: a subscription given a second time leaves
\* the mailing lists as the first left them, and a message with the topic
\* is then appended to the subscriber's inbox exactly once.
C27_SubscribeIdempotent ==
    [][/\ \A a \in UserAgents :
            /\ SubscriptionCall("subscribe", a, UserTopic)
            /\ subscription_calls # <<>>
            /\ LastCall.op = "subscribe" /\ LastCall.a = a /\ LastCall.k = UserTopic
            /\ mailing_lists = ProcessSubscribe(LastCall.ml, a, UserTopic)
            => mailing_lists' = mailing_lists
       /\ ProcessMail /\ err' = "none" =>
            \A a \in UserAgents, i \in DOMAIN mail_queue :
                NewIn(a, mail_queue[i]) =
                    IF Holds(mailing_lists, a, mail_queue[i].topic) THEN 1 ELSE 0]_vars

\* an agent has subscribed to the topic twice in a row and a message with the
\* topic has then been delivered to it
C27_Witness ==
    /\ Len(subscription_calls) = 2
    /\ subscription_calls[1].op = "subscribe" /\ subscription_calls[2].op = "subscribe"
    /\ subscription_calls[1].a = subscription_calls[2].a
    /\ subscription_calls[1].k = subscription_calls[2].k
    /\ \E i \in DOMAIN log :
          /\ log[i].m.topic = subscription_calls[2].k
          /\ subscription_calls[2].a \in log[i].rcpt
          /\ Len(log[i].got) = Cardinality(log[i].rcpt)

\* agent a has just subscribed to the topic, which it did not hold, and now
\* takes the subscription back
SubscribeThenUnsubscribe(a) ==
    /\ SubscriptionCall("unsubscribe", a, UserTopic)
    /\ subscription_calls # <<>>
    /\ LastCall.op = "subscribe" /\ LastCall.a = a /\ LastCall.k = UserTopic
    /\ ~Holds(LastCall.ml, a, UserTopic)
    /\ mailing_lists = ProcessSubscribe(LastCall.ml, a, UserTopic)

\* C28: from mailing lists in which x does not hold subscription p,
\* subscribe(x, p) followed by unsubscribe(x, p) restores the mailing lists
\* exactly: the same keys and the same subscriber sets.
C28_SubscribeUnsubscribeRestores ==
    [][\A a \in UserAgents :
          SubscribeThenUnsubscribe(a) => mailing_lists' = LastCall.ml]_vars

\* agent a, whose last call was to unsubscribe from everything, subscribes
\* to the topic
SubscribeAfterEverything(a) ==
    /\ SubscriptionCall("subscribe", a, UserTopic)
    /\ subscription_calls # <<>>
    /\ LastCall.op = "unsubscribe" /\ LastCall.a = a /\ LastCall.k = None
    /\ mailing_lists = ProcessUnsubscribe(LastCall.ml, a, None)

\* C29: unsubscribe from everything removes every subscription of the
\* subscriber and nothing else: afterwards the subscriber is on no mailing
\* list and every other subscriber holds the subscriptions it held; a
\* subscribe of the same subscriber that follows gives it that subscription
\* and no other, as it does for a subscriber that never subscribed.
C29_UnsubscribeEverything ==
    [][\A a \in UserAgents :
          /\ SubscriptionCall("unsubscribe", a, None) =>
                /\ \A k \in DOMAIN mailing_lists' : a \notin mailing_lists'[k]
                /\ \A b \in Ids \ {a} :
                      TopicsOf(mailing_lists', b) = TopicsOf(mailing_lists, b)
          /\ SubscribeAfterEverything(a) =>
                /\ TopicsOf(mailing_lists', a) = {UserTopic}
                /\ \A b \in Ids \ {a} :
                      TopicsOf(mailing_lists', b) = TopicsOf(mailing_lists, b)]_vars

\* an agent that was on several mailing lists, one of them shared with the
\* other agent, has unsubscribed from everything and subscribed again
C29_Witness ==
    /\ Len(subscription_calls) = 2
    /\ subscription_calls[1].op = "unsubscribe" /\ subscription_calls[1].k = None
    /\ subscription_calls[2].op = "subscribe"
    /\ subscription_calls[2].a = subscription_calls[1].a
    /\ subscription_calls[2].ml =
           ProcessUnsubscribe(subscription_calls[1].ml, subscription_calls[1].a, None)
    /\ Cardinality(TopicsOf(subscription_calls[1].ml, subscription_calls[1].a)) > 1
    /\ \E b \in UserAgents \ {subscription_calls[1].a} :
          TopicsOf(subscription_calls[1].ml, b)
              \cap TopicsOf(subscription_calls[1].ml, subscription_calls[1].a) # {}
    /\ TopicsOf(mailing_lists, subscription_calls[2].a) = {UserTopic}

\* the pending alarms that clear_alarms(receiver, topic) is to remove
ToClear(pending, receiver, topic) ==
    {p \in pending : p[1] = receiver /\ (topic = None \/ p[3].topic = topic)}

\* the wake-up times in the wake-up sequence
WakeupTimes(B) == {B.alarm_time[i] : i \in DOMAIN B.alarm_time}

\* C30: clear_alarms(receiver=R, topic=T) removes exactly the pending alarms
\* addressed to R, those with topic T when a topic is given, whoever set
\* them, and leaves every other alarm pending; a wake-up time is in the
\* wake-up sequence of the clock exactly if an alarm is pending at that time.
C30_ClearAlarmsExact ==
    /\ cleared # NoClear =>
          AlarmsPending(alarm_book) =
              cleared.pending \ ToClear(cleared.pending, cleared.receiver, cleared.topic)
    /\ \A p \in AlarmsPending(alarm_book) : p[3].receiver = p[1]
    /\ WakeupTimes(alarm_book) = {p[2] : p \in AlarmsPending(alarm_book)}
    /\ Len(alarm_book.alarm_time) = Cardinality(WakeupTimes(alarm_book))

\* clear_alarms with a topic has removed an alarm that another agent had set
\* for the receiver; its wake-up time has stayed for an alarm of another
\* receiver, and another wake-up time was pruned
C30_Witness ==
    /\ cleared # NoClear
    /\ cleared.topic # None
    /\ \E p \in ToClear(cleared.pending, cleared.receiver, cleared.topic) :
          /\ p[3].sender # cleared.receiver
          /\ \E q \in AlarmsPending(alarm_book) : q[2] = p[2] /\ q[1] # p[1]
    /\ \E p \in cleared.pending : p[2] \notin WakeupTimes(alarm_book)

\* C31: run(seconds=0) returns after at most one iteration of the main loop,
\* whatever the clock and the alarms pending: a run that was given 0 seconds
\* never begins a second iteration.
C31_ZeroSecondsOneIteration == run_info.seconds = 0 => run_info.loops <= 1

\* every subscriber on a mailing list is a registered agent or the scheduler
SubscribersRegistered ==
    \A k \in DOMAIN mailing_lists : mailing_lists[k] \subseteq agents \cup {SchedulerId}

\* C32: after every iteration and after every add or remove the registered
\* agents and the subscribers of the mailing lists coincide: every
\* registered agent is a subscriber under its own uuid, and every
\* subscriber is a registered agent or the scheduler.
C32_RegistryMatchesDirectory ==
    pc \in {"idle", "loop"} /\ err = "none" =>
        /\ \A a \in agents : Holds(mailing_lists, a, a)
        /\ SubscribersRegistered

\* ------------------------------------------------- the wake-up sequences
\* the times at which a receiver has an alarm in its registry
PendingTimes(C) ==
    {t \in UNION {DOMAIN C.registry[r] : r \in DOMAIN C.registry} :
        \E r \in DOMAIN C.registry : t \in DOMAIN C.registry[r] /\ C.registry[r][t] # <<>>}

\* the items of a sequence
Items(q) == {q[i] : i \in DOMAIN q}

\* a sequence in ascending order without duplicates
Ascending(q) == \A i, j \in DOMAIN q : i < j => q[i] < q[j]

\* a sequence without duplicates whose items are not below the first
EarliestFirst(q) == \A i, j \in DOMAIN q : i < j => q[1] <= q[j] /\ q[i] # q[j]

\* the wake-up times are the pending times, and every one has clients
ExactTimes(C) ==
    /\ Items(C.alarm_time) = PendingTimes(C)
    /\ \A t \in Items(C.alarm_time) :
          t \in DOMAIN C.clients_to_wake_up /\ C.clients_to_wake_up[t] # {}

\* C33: after any sequence of set_alarm, release and clear calls the
\* wake-up sequence of a clock holds exactly the times at which a receiver
\* has a pending alarm, in ascending order without duplicates, and every
\* time of the sequence has clients to wake up.
C33_WakeupSequenceAscending ==
    /\ ExactTimes(clock1) /\ Ascending(clock1.alarm_time)
    /\ ExactTimes(clock2) /\ Ascending(clock2.alarm_time)

\* C33 as amended: the sequence holds exactly the pending times, without
\* duplicates and with the earliest first; it is ascending on the deque
\* clock, and a heap on the heap clock.
C33_WakeupSequenceEarliestFirst ==
    /\ ExactTimes(clock1) /\ EarliestFirst(clock1.alarm_time)
    /\ ExactTimes(clock2) /\ Ascending(clock2.alarm_time)

\* the heap clock holds three wake-up times that are not in ascending
\* order, and the clocks have ticked
C33_Witness ==
    /\ Len(clock1.alarm_time) = 3
    /\ ~Ascending(clock1.alarm_time)
    /\ Len(clock2.alarm_time) = 3
    /\ clock1.time > 0

\* C34: an agent that is not keep-awake is updated in an iteration only if
\* it was added since the last iteration, held mail when run was called, or
\* received a message in the previous iteration's delivery.  Scheduler.add,
\* Scheduler.run and send_to_recipients each put such an agent in
\* needs_update, and nothing takes it out before the next iteration: every
\* agent an iteration is about to update whose flag is not set is in
\* needs_update when the iteration begins.
C34_UpdatedOnlyWithCause ==
    [][pc = "loop" /\ pc' = "agents" =>
          \A a \in UserAgents \cap agents :
              (a \in todo' /\ ~keep_awake[a]) => a \in needs_update]_vars

\* C35: the heap clock and the deque clock are observationally equivalent:
\* given the same set_alarm, clear_alarms, tick and release_alarm_messages
\* calls they show the same time and have put the same alarm messages on the
\* mail queue, in the same order, and they hold the same alarms for the same
\* receivers, so that as many alarms are set on the one as on the other.
C35_ClocksEquivalent ==
    /\ clock1.time = clock2.time
    /\ clock1.mail_queue = clock2.mail_queue
    /\ clock1.registry = clock2.registry
    /\ clock1.clients_to_wake_up = clock2.clients_to_wake_up
    /\ clock1.last_required_alarm = clock2.last_required_alarm
    /\ Items(clock1.alarm_time) = Items(clock2.alarm_time)

\* after a tick to a later time a release has put the alarms of two
\* receivers on the mail queues, and one more wake-up time is pending
C35_Witness ==
    /\ clock1.time > 0
    /\ Len(clock1.mail_queue) = 2
    /\ clock1.mail_queue[1].receiver # clock1.mail_queue[2].receiver
    /\ Len(clock2.alarm_time) = 1

\* ------------------------------------------------------- deferred delivery
\* the envelopes in the MailMan's inbox for a receiver that is neither a
\* registered agent nor a mailing list
Undeliverable ==
    {i \in DOMAIN mailman.inbox :
        /\ mailman.inbox[i].envelope
        /\ mailman.inbox[i].intended \notin mailman.agent_register
        /\ mailman.inbox[i].intended \notin DOMAIN mailman.mailing_lists}

\* C36: a message for a receiver that is neither a registered agent nor a
\* mailing list is re-attempted at most its tolerated number of delivery
\* attempts and then dropped, whatever the tolerated number is: after the
\* first failed delivery no envelope in the inbox has failed more often than
\* that number of re-attempts allows.
C36_DroppedAfterTolerated ==
    \A i \in Undeliverable :
        mailman.inbox[i].attempts - 1 <= mailman.inbox[i].tolerated

\* C37: every identifier in needs_update or has_keep_awake is a registered
\* agent in every reachable state, also when agents are added or removed
\* from within an update, by message or by a call on the scheduler, and the
\* update loop never fails to look up an identifier it iterates over.
C37_UpdateSetsRegistered ==
    /\ needs_update \cup has_keep_awake \subseteq agents
    /\ todo \subseteq agents
    /\ err # "KeyError"

\* C38: on a simulation clock the time never decreases, whatever the
\* alarms are set with (any delay, zero and negative too), and whatever
\* ticks and releases follow: the time after a step is at least the time
\* before it.
C38_TimeNeverDecreases ==
    [][/\ clock1.time' >= clock1.time
       /\ clock2.time' >= clock2.time
       /\ clock_time' >= clock_time]_vars

\* C39: the seconds given to a run call affect only that call: when the
\* call has returned before its deadline, by its iteration cap, a later run
\* that is given no seconds is not paused by a PauseMessage (no agent sends
\* one here), and its clock is not advanced (no agent has set an alarm).
C39_BudgetOfOneCall ==
    /\ [](run_info.seconds = -1 => run_info.exit # "pause")
    /\ [][run_info.seconds = -1 /\ run_info'.seconds = -1 => clock_time' = clock_time]_vars

\* ------------------------------------------------- mail between partitions
\* the ids of the messages in sequence q
IdsIn(q) == {q[i].id : i \in DOMAIN q}

\* how often message n stands in sequence q
Times(q, n) == Cardinality({i \in DOMAIN q : q[i].id = n})

\* the part of the mail queue of partition p its process_mail_queue has yet to
\* handle
Unhandled(p) ==
    IF mp.at[p] = "mail"
    THEN SubSeq(mp.mail_queue[p], mp.pos[p] + 1, Len(mp.mail_queue[p]))
    ELSE mp.mail_queue[p]

RECURSIVE SumOver(_, _)
SumOver(S, f) ==
    IF S = {} THEN 0
    ELSE LET x == CHOOSE y \in S : TRUE IN f[x] + SumOver(S \ {x}, f)

\* how often message n stands in a mail queue, in a queue between the
\* processes, or in an inbox
Copies(n) ==
    SumOver(Partitions, [p \in Partitions |->
                            Times(Unhandled(p), n) + Times(mp.to_mp[p], n)
                            + Times(mp.to_proc[p], n)])
    + SumOver(MPAgents, [a \in MPAgents |-> Times(mp.inbox[a], n)])

\* the messages of q that went the way they are meant to go: straight when
\* sender and receiver share a partition, once through MPmain otherwise
RightWay(q) ==
    \A i \in DOMAIN q :
        q[i].forwarded = IF MainAgents[q[i].s] = MainAgents[q[i].r] THEN 0 ELSE 1

====
